---- MODULE Spec2Model ----
(***************************************************************************)
(* A model of the command/parameter resolution pipeline of click           *)
(* (src/src/click/core.py): parameter processing order, context building,  *)
(* callback invocation, the Context's nesting depth and cleanup registry,  *)
(* and the top-level driver BaseCommand.main.                              *)
(*                                                                         *)
(* The module holds several state machines over one set of variables;     *)
(* `part` says which one a behaviour belongs to:                           *)
(*   "order"  iter_params_for_processing on drawn inputs      (SpecOrder)  *)
(*   "cmd"    make_context / get_default / invoke             (SpecCmd)    *)
(*   "scope"  Context.__enter__/__exit__/scope                (SpecScope)  *)
(*            ... and close() called directly                 (SpecClose)  *)
(*            ... and a second Context entered in between     (SpecCurrent)*)
(*   "main"   BaseCommand.main                                (SpecMain)   *)
(*   "comp"   shell completion and the help option            (SpecComp)   *)
(*   "reg"    Group / CommandCollection and their lookups     (SpecReg)    *)
(*   "tree"   Contexts under one another, settings and meta   (SpecTree)   *)
(*   "param"  Parameter construction and type_cast_value      (SpecParam)  *)
(*   "iso"    CliRunner.isolation and invoke (testing.py)     (SpecIso)    *)
(*   "rcb"    MultiCommand.result_callback                    (SpecRcb)    *)
(***************************************************************************)
EXTENDS Integers, Sequences, FiniteSets, TLC

VARIABLES
    part,               \* which state machine this behaviour runs
    pc,                 \* position of the driver of that state machine
    declaration_order,  \* Command.params as handed to iter_params_for_processing
    invocation_order,   \* the parser's match order
    order_result,       \* what iter_params_for_processing returned or raised
    command,            \* the declared command (and its subcommands)
    argv,               \* the argument list given to make_context / main
    environ,            \* os.environ, restricted to the variables of interest
    standalone_mode,    \* the standalone_mode argument of main()
    incomplete_arg,     \* the incomplete value being completed
    ctx,                \* the Context object
    stack,              \* globals: the stack of current contexts
    frames,             \* the with-blocks of ctx that are open, innermost last
    log,                \* observable events: cleanups run, callbacks called
    defaults,           \* Parameter.get_default results, by parameter name
    contexts,           \* the Context objects constructed, in order of construction
    heap,               \* the dict objects the contexts' _meta refer to
    process,            \* sys.stdin/stdout/stderr/argv, os.environ and the hooks
                        \* of formatting, termui and utils
    outcome             \* how the last call of the driver ended

vars == <<part, pc, declaration_order, invocation_order, order_result, command,
          argv, environ, standalone_mode, incomplete_arg, ctx, stack, frames, log,
          defaults, contexts, heap, process, outcome>>

(***************************************************************************)
(* Bounds.                                                                 *)
(***************************************************************************)
MaxParams == 3      \* parameters declared on one command
MaxInvoked == 2     \* length of the parser's match order

None == "None"

Range(s) == {s[i] : i \in DOMAIN s}

(***************************************************************************)
(* Parameter names.  A name is an index into Names, which is in Python's   *)
(* string order, so comparing two names is comparing their indices.        *)
(***************************************************************************)
Names == <<"alpha", "beta", "gamma", "omega", "zeta">>

OrderParams == [name : 1..MaxParams, is_eager : BOOLEAN]

\* list.index(x): the first position holding x, 0 standing for ValueError.
IndexOf(seq, x) ==
    IF x \in Range(seq)
    THEN CHOOSE i \in DOMAIN seq : seq[i] = x /\ \A j \in 1..(i - 1) : seq[j] # x
    ELSE 0

\* sort_key of iter_params_for_processing (core.py:74-78), a pair.
sort_key(param, inv) ==
    IF param.is_eager THEN <<0, param.name>> ELSE <<1, IndexOf(inv, param)>>

\* Python's tuple order on pairs of integers.
KeyLess(a, b) == a[1] < b[1] \/ (a[1] = b[1] /\ a[2] < b[2])

\* One step of a stable insertion: x goes after every element whose key is
\* not greater than x's.
RECURSIVE InsertByKey(_, _, _)
InsertByKey(sorted, x, inv) ==
    IF sorted = <<>> THEN <<x>>
    ELSE IF KeyLess(sort_key(x, inv), sort_key(Head(sorted), inv))
         THEN <<x>> \o sorted
         ELSE <<Head(sorted)>> \o InsertByKey(Tail(sorted), x, inv)

\* sorted(seq, key=sort_key): Python's sort is stable.
RECURSIVE SortedByKey(_, _)
SortedByKey(seq, inv) ==
    IF seq = <<>> THEN <<>>
    ELSE InsertByKey(SortedByKey(SubSeq(seq, 1, Len(seq) - 1), inv), seq[Len(seq)], inv)

\* iter_params_for_processing (core.py:69-80).  sorted() evaluates the key of
\* every element first; list.index raises ValueError for a non-eager
\* parameter that is not in invocation_order.
iter_params_for_processing(inv, decl) ==
    IF \E i \in DOMAIN decl : ~decl[i].is_eager /\ decl[i] \notin Range(inv)
    THEN [exc |-> "ValueError", rv |-> <<>>]
    ELSE [exc |-> None, rv |-> SortedByKey(decl, inv)]

\* Sequences of length at most n over S.
SeqUpTo(S, n) == UNION {[1..k -> S] : k \in 0..n}

\* Declaration orders: parameters of one command have distinct names.
Declarations ==
    {d \in SeqUpTo(OrderParams, MaxParams) :
        \A i, j \in DOMAIN d : i # j => d[i].name # d[j].name}

NoCommand == [kind |-> None]
NoCtx == [exists |-> FALSE]
NoOutcome == [kind |-> None]
NoOrder == [exc |-> None, rv |-> <<>>]

\* The variables a state machine does not use.
IdleOrder ==
    /\ declaration_order = <<>>
    /\ invocation_order = <<>>
    /\ order_result = NoOrder

IdleCmd ==
    /\ command = NoCommand
    /\ argv = <<>>
    /\ environ = <<>>
    /\ standalone_mode = TRUE
    /\ incomplete_arg = <<>>
    /\ defaults = <<>>

IdleTree ==
    /\ contexts = <<>>
    /\ heap = <<>>
    /\ process = <<>>

IdleCtx ==
    /\ ctx = NoCtx
    /\ stack = <<>>
    /\ frames = <<>>
    /\ log = <<>>
    /\ outcome = NoOutcome

(***************************************************************************)
(* "order": iter_params_for_processing on every declaration order and      *)
(* match order within the bounds.                                          *)
(***************************************************************************)
InitOrder ==
    /\ part = "order"
    /\ IdleTree
    /\ pc = "call"
    /\ declaration_order \in Declarations
    /\ invocation_order \in SeqUpTo(Range(declaration_order), MaxInvoked)
    /\ order_result = NoOrder
    /\ IdleCmd
    /\ IdleCtx

IterParams ==
    /\ part = "order"
    /\ pc = "call"
    /\ order_result' = iter_params_for_processing(invocation_order, declaration_order)
    /\ pc' = "returned"
    /\ UNCHANGED <<part, declaration_order, invocation_order, command, argv,
                   environ, standalone_mode, incomplete_arg, ctx, stack, frames, log, defaults,
                   outcome,
                   contexts, heap, process>>

NextOrder == IterParams

SpecOrder == InitOrder /\ [][NextOrder]_vars

(***************************************************************************)
(* The Context object, its cleanup registry and the current-context stack. *)
(*                                                                         *)
(* The methods are operators on a world w = [ctx, stack, log, exc]: the    *)
(* Context's fields, the global stack, the events observed so far and the  *)
(* exception in flight (NoExc when none).                                  *)
(***************************************************************************)
MaxCleanups == 2    \* cleanups registered on one Context
MaxDepth == 2       \* with-blocks of one Context open at once
MaxLog == 6         \* events recorded in one behaviour

EmptyMap == <<>>

\* Python values: None, a string, or a callable returning a string.
PyNone == [tag |-> "none", v |-> ""]
Str(x) == [tag |-> "str", v |-> x]
Fn(x) == [tag |-> "callable", v |-> x]
callable(value) == value.tag = "callable"
Call(value) == Str(value.v)

\* An optional mapping from names to values (Context.default_map).
NoMap == [is_none |-> TRUE, map |-> EmptyMap]
Map(m) == [is_none |-> FALSE, map |-> m]

NoExc == [kind |-> None, code |-> 0]
Exc(kind, code) == [kind |-> kind, code |-> code]

\* A cleanup is a function or a context manager the program registers; when
\* it runs it returns or raises.
Cleanup(id, raises) == [id |-> id, raises |-> raises]
CleanupError(c) == Exc("CleanupError", c.id)

RegisterEvent(c, via) == [ev |-> "register", id |-> c.id, via |-> via, depth |-> 0]
CleanupEvent(c, depth) == [ev |-> "cleanup", id |-> c.id, via |-> "", depth |-> depth]

World(c, st, lg) ==
    [ctx |-> c, stack |-> st, log |-> lg, exc |-> NoExc, rv |-> PyNone]

\* Context.__init__ (core.py:202-260), the fields the model follows.
\* "--help", as characters.
HelpOpt == <<"-", "-", "h", "e", "l", "p">>

Bool(x) == [tag |-> "bool", b |-> x]
Num(x) == [tag |-> "int", n |-> x]

\* The upper-case letter of every lower-case one.
LowerToUpper ==
    [a |-> "A", b |-> "B", c |-> "C", d |-> "D", e |-> "E", f |-> "F",
     g |-> "G", h |-> "H", i |-> "I", j |-> "J", k |-> "K", l |-> "L",
     m |-> "M", n |-> "N", o |-> "O", p |-> "P", q |-> "Q", r |-> "R",
     s |-> "S", t |-> "T", u |-> "U", v |-> "V", w |-> "W", x |-> "X",
     y |-> "Y", z |-> "Z"]

\* str.upper(): every other character stays as it is.
upper(s) == [i \in DOMAIN s |-> (LowerToUpper @@ (s[i] :> s[i]))[s[i]]]

\* str.replace(old, new) for one-character old and new
replace(s, old, new) == [i \in DOMAIN s |-> IF s[i] = old THEN new ELSE s[i]]

\* The settings of Context.__init__ that fall back on the parent's value
\* (core.py:220-225, 239-241, 252-257).
InheritedSettings ==
    {"terminal_width", "max_content_width", "token_normalize_func", "color",
     "show_default"}

\* Inherit as a bug would have it: the parent is not consulted.
InheritNothing(kw, parent, key) ==
    IF key \in DOMAIN kw THEN kw[key] ELSE PyNone

\* `if x is None and parent is not None: x = parent.x` for the keyword
\* argument key; kw holds the keyword arguments given with a value other
\* than None.
Inherit(kw, parent, key) ==
    IF key \in DOMAIN kw THEN kw[key]
    ELSE IF parent.exists THEN parent[key]
    ELSE PyNone

\* help_option_names (core.py:233-238)
InheritHelpOptionNames(kw, parent) ==
    IF "help_option_names" \in DOMAIN kw THEN kw.help_option_names
    ELSE IF parent.exists THEN parent.help_option_names
    ELSE <<HelpOpt>>

\* `if auto_envvar_prefix is not None: ....replace("-", "_")` (core.py:249-250)
DashesReplaced(prefix) ==
    IF prefix.tag # "none" THEN Str(replace(prefix.v, "-", "_")) ELSE PyNone

\* auto_envvar_prefix (core.py:243-250); an empty info_name stands for None.
InheritEnvvarPrefix(kw, parent, info_name) ==
    DashesReplaced(
        IF "auto_envvar_prefix" \notin DOMAIN kw
        THEN IF /\ parent.exists
                /\ parent.auto_envvar_prefix.tag # "none"
                /\ info_name # <<>>
             THEN Str(parent.auto_envvar_prefix.v \o <<"_">> \o upper(info_name))
             ELSE PyNone
        ELSE Str(upper(kw.auto_envvar_prefix.v)))

\* default_map (core.py:214-216): with none given, the entry of the parent's
\* default_map for info_name, None when it has no such entry.  A None
\* info_name is never a key.
InheritDefaultMap(default_map, parent, info_name) ==
    IF default_map.is_none /\ parent.exists /\ ~parent.default_map.is_none
    THEN IF info_name \in DOMAIN parent.default_map.map
         THEN parent.default_map.map[info_name]
         ELSE NoMap
    ELSE default_map

\* The keyword arguments left at their default, None.
NoKw == <<>>

\* Context.__init__ (core.py:202-260) with keyword arguments kw.
Context_init(cmd_name, parent, info_name, default_map, kw) ==
    [exists |-> TRUE,
     command |-> cmd_name,
     parent |-> parent,
     info_name |-> info_name,
     params |-> EmptyMap,
     args |-> <<>>,
     protected_args |-> <<>>,
     default_map |-> InheritDefaultMap(default_map, parent, info_name),
     invoked_subcommand |-> None,
     close_callbacks |-> <<>>,
     depth |-> 0,
     parameter_source |-> EmptyMap,
     exit_stack |-> <<>>,
     resilient_parsing |-> FALSE,
     help_option_names |-> InheritHelpOptionNames(kw, parent),
     auto_envvar_prefix |-> InheritEnvvarPrefix(kw, parent, info_name)]
    @@ [key \in InheritedSettings |-> Inherit(kw, parent, key)]

NewContext(cmd_name, parent, info_name, default_map) ==
    Context_init(cmd_name, parent, info_name, default_map, NoKw)

\* globals.push_context / globals.pop_context: a stack of contexts, the
\* current one last.
push_context(w) == [w EXCEPT !.stack = Append(@, w.ctx.info_name)]

pop_context(w) == [w EXCEPT !.stack = SubSeq(@, 1, Len(@) - 1)]

\* Context.call_on_close (core.py:405-416).
call_on_close(w, f) ==
    [w EXCEPT !.ctx.close_callbacks = Append(@, f),
              !.log = Append(@, RegisterEvent(f, "call_on_close"))]

\* Context.with_resource (core.py:376-403): ExitStack.enter_context pushes
\* the manager's __exit__.
with_resource(w, cm) ==
    [w EXCEPT !.ctx.exit_stack = Append(@, cm),
              !.log = Append(@, RegisterEvent(cm, "with_resource"))]

\* The loop of Context.close (core.py:423-424): the callbacks, last
\* registered first; a callback that raises ends the loop.
RECURSIVE RunReversed(_, _)
RunReversed(w, cbs) ==
    IF cbs = <<>> THEN w
    ELSE LET cb == cbs[Len(cbs)]
             w1 == [w EXCEPT !.log = Append(@, CleanupEvent(cb, w.ctx.depth))]
         IN  IF cb.raises
             THEN [w1 EXCEPT !.exc = CleanupError(cb)]
             ELSE RunReversed(w1, SubSeq(cbs, 1, Len(cbs) - 1))

\* ExitStack.close (core.py:426): pops and runs every exit, last entered
\* first, also after one of them raised; the last exception raised is the one
\* it raises.
RECURSIVE ExitStackClose(_)
ExitStackClose(w) ==
    IF w.ctx.exit_stack = <<>> THEN w
    ELSE LET es == w.ctx.exit_stack
             cm == es[Len(es)]
             w1 == [w EXCEPT !.ctx.exit_stack = SubSeq(es, 1, Len(es) - 1),
                             !.log = Append(@, CleanupEvent(cm, w.ctx.depth))]
         IN  ExitStackClose(IF cm.raises THEN [w1 EXCEPT !.exc = CleanupError(cm)] ELSE w1)

\* Context.close (core.py:418-426), called with no exception in flight.
ContextClose(w) ==
    LET w1 == RunReversed(w, w.ctx.close_callbacks)
    IN  IF w1.exc # NoExc
        THEN w1
        ELSE ExitStackClose([w1 EXCEPT !.ctx.close_callbacks = <<>>])

\* Context.__enter__ (core.py:276-279).
ContextEnter(w) == push_context([w EXCEPT !.ctx.depth = @ + 1])

\* Context.__exit__ (core.py:281-285).  w.exc is the exception the body of
\* the with-block raised; it goes on after __exit__ returned, and an
\* exception close() raises replaces it and skips pop_context.
ContextExit(w) ==
    LET w1 == [w EXCEPT !.ctx.depth = @ - 1, !.exc = NoExc]
        w2 == IF w1.ctx.depth = 0 THEN ContextClose(w1) ELSE w1
    IN  IF w2.exc # NoExc
        THEN w2
        ELSE [pop_context(w2) EXCEPT !.exc = w.exc]

\* Context.scope (core.py:316, 326): the branch taken at entry.
ScopeMode(w) == IF w.ctx.depth = 0 THEN "outer" ELSE "inner"

\* Context.scope up to its yield (core.py:316-320, 326-329).
ScopeEnter(w) ==
    IF ScopeMode(w) = "outer"
    THEN push_context([w EXCEPT !.ctx.depth = @ + 1])
    ELSE [w EXCEPT !.ctx.depth = @ + 1]

\* Context.scope after its yield (core.py:321-325, 330-331), for the branch
\* `mode` taken at entry.
ScopeExit(w, mode, cleanup) ==
    LET w1 == [w EXCEPT !.ctx.depth = @ - 1, !.exc = NoExc]
        w2 == IF mode = "outer" /\ cleanup THEN ContextClose(w1) ELSE w1
    IN  IF mode = "inner" THEN [w1 EXCEPT !.exc = w.exc]
        ELSE IF w2.exc # NoExc THEN w2
        ELSE [pop_context(w2) EXCEPT !.exc = w.exc]

(***************************************************************************)
(* "scope": one Context, entered and left by nested with-blocks            *)
(* (`with ctx:` and `with ctx.scope(cleanup):`), with cleanups registered  *)
(* at any point.                                                           *)
(***************************************************************************)
Frame(kind, mode, cleanup) == [kind |-> kind, mode |-> mode, cleanup |-> cleanup]

Registered(lg) == {lg[i].id : i \in {k \in DOMAIN lg : lg[k].ev = "register"}}

TheWorld == World(ctx, stack, log)

\* The result of a method becomes the state; the exception it raised, if
\* any, is what the caller sees.
Becomes(w) ==
    /\ ctx' = w.ctx
    /\ stack' = w.stack
    /\ log' = w.log
    /\ outcome' = IF w.exc = NoExc THEN [kind |-> "return"]
                  ELSE [kind |-> "raise", exc |-> w.exc]

InitScope ==
    /\ part = "scope"
    /\ IdleTree
    /\ pc = "run"
    /\ ctx = NewContext("cli", NoCtx, "cli", NoMap)
    /\ stack = <<>>
    /\ frames = <<>>
    /\ log = <<>>
    /\ outcome = NoOutcome
    /\ IdleOrder
    /\ IdleCmd

CanRegister == Cardinality(Registered(log)) < MaxCleanups /\ Len(log) < MaxLog

CallOnClose ==
    /\ part = "scope"
    /\ CanRegister
    /\ \E raises \in BOOLEAN :
          Becomes(call_on_close(TheWorld, Cleanup(Cardinality(Registered(log)) + 1, raises)))
    /\ UNCHANGED <<part, pc, declaration_order, invocation_order, order_result,
                   command, argv, environ, standalone_mode, incomplete_arg, frames,
                   defaults,
                   contexts, heap, process>>

WithResource ==
    /\ part = "scope"
    /\ CanRegister
    /\ \E raises \in BOOLEAN :
          Becomes(with_resource(TheWorld, Cleanup(Cardinality(Registered(log)) + 1, raises)))
    /\ UNCHANGED <<part, pc, declaration_order, invocation_order, order_result,
                   command, argv, environ, standalone_mode, incomplete_arg, frames,
                   defaults,
                   contexts, heap, process>>

\* `with ctx:` is entered.
WithEnter ==
    /\ part = "scope"
    /\ ctx.depth < MaxDepth
    /\ Becomes(ContextEnter(TheWorld))
    /\ frames' = Append(frames, Frame("with", "", TRUE))
    /\ UNCHANGED <<part, pc, declaration_order, invocation_order, order_result,
                   command, argv, environ, standalone_mode, incomplete_arg, defaults,
                   contexts, heap, process>>

\* `with ctx.scope(cleanup):` is entered.
WithScopeEnter ==
    /\ part = "scope"
    /\ ctx.depth < MaxDepth
    /\ \E cleanup \in BOOLEAN :
          /\ Becomes(ScopeEnter(TheWorld))
          /\ frames' = Append(frames, Frame("scope", ScopeMode(TheWorld), cleanup))
    /\ UNCHANGED <<part, pc, declaration_order, invocation_order, order_result,
                   command, argv, environ, standalone_mode, incomplete_arg, defaults,
                   contexts, heap, process>>

\* The innermost open with-block is left.
WithExit ==
    /\ part = "scope"
    /\ frames # <<>>
    /\ frames[Len(frames)].kind # "other"
    /\ Len(log) + Len(ctx.close_callbacks) + Len(ctx.exit_stack) <= MaxLog
    /\ LET f == frames[Len(frames)] IN
          IF f.kind = "with"
          THEN Becomes(ContextExit(TheWorld))
          ELSE Becomes(ScopeExit(TheWorld, f.mode, f.cleanup))
    /\ frames' = SubSeq(frames, 1, Len(frames) - 1)
    /\ UNCHANGED <<part, pc, declaration_order, invocation_order, order_result,
                   command, argv, environ, standalone_mode, incomplete_arg, defaults,
                   contexts, heap, process>>

\* ctx.close() called directly.
CloseCall ==
    /\ part = "scope"
    /\ Len(log) + Len(ctx.close_callbacks) + Len(ctx.exit_stack) <= MaxLog
    /\ Becomes(ContextClose(TheWorld))
    /\ UNCHANGED <<part, pc, declaration_order, invocation_order, order_result,
                   command, argv, environ, standalone_mode, incomplete_arg, frames,
                   defaults,
                   contexts, heap, process>>

NextScope == CallOnClose \/ WithResource \/ WithEnter \/ WithScopeEnter \/ WithExit

SpecScope == InitScope /\ [][NextScope]_vars

NextClose == NextScope \/ CloseCall

SpecClose == InitScope /\ [][NextClose]_vars

\* A second Context, with no cleanups of its own, entered and left by
\* `with other:` blocks nested among those of ctx.
MaxOthers == 1

OtherName == "other"

OtherFrames == {i \in DOMAIN frames : frames[i].kind = "other"}

\* `with other:` is entered: Context.__enter__ (core.py:276-279) of the other
\* Context pushes it.
OtherEnter ==
    /\ part = "scope"
    /\ Cardinality(OtherFrames) < MaxOthers
    /\ stack' = Append(stack, OtherName)
    /\ frames' = Append(frames, Frame("other", "", TRUE))
    /\ outcome' = [kind |-> "return"]
    /\ UNCHANGED <<part, pc, declaration_order, invocation_order, order_result,
                   command, argv, environ, standalone_mode, incomplete_arg, ctx, log,
                   defaults, contexts, heap, process>>

\* `with other:` is left: Context.__exit__ (core.py:281-285) of the other
\* Context, whose close() has nothing to run, pops the top of the stack.
OtherExit ==
    /\ part = "scope"
    /\ frames # <<>>
    /\ frames[Len(frames)].kind = "other"
    /\ stack' = SubSeq(stack, 1, Len(stack) - 1)
    /\ frames' = SubSeq(frames, 1, Len(frames) - 1)
    /\ outcome' = [kind |-> "return"]
    /\ UNCHANGED <<part, pc, declaration_order, invocation_order, order_result,
                   command, argv, environ, standalone_mode, incomplete_arg, ctx, log,
                   defaults, contexts, heap, process>>

NextCurrent == NextScope \/ OtherEnter \/ OtherExit

SpecCurrent == InitScope /\ [][NextCurrent]_vars

(***************************************************************************)
(* Commands, context building and invocation.                              *)
(***************************************************************************)
\* A Parameter (core.py:1380-1400): the attributes value resolution reads.
Param(name, opts, default, envvar, expose_value) ==
    [name |-> name, opts |-> opts, default |-> default, envvar |-> envvar,
     expose_value |-> expose_value]

\* What the program's own code does when called: a parse_args override or a
\* command callback registers cleanups on the context, then returns or raises.
Behaviour(registers, exc) == [registers |-> registers, exc |-> exc]
Returns == Behaviour(<<>>, NoExc)

\* A command (core.py:628-632, 877-888, 1070-1083, 1206-1212).  parse_args
\* is Returns for the parse_args of core.py and something else for a
\* subclass that overrides it.
Cmd(kind, name, chain, params, commands, default_map, parse, callback) ==
    [kind |-> kind, name |-> name, chain |-> chain, params |-> params,
     commands |-> commands, context_settings |-> [default_map |-> default_map],
     parse_args |-> parse, has_callback |-> TRUE, callback |-> callback]

\* The call of a command's callback, with the keyword arguments it is given.
CallbackEvent(cmd, c, kwargs) ==
    [ev |-> "callback", command |-> cmd.name, kwargs |-> kwargs,
     info_name |-> c.info_name, parent |-> c.parent]

\* Context.lookup_default (core.py:462-477).
lookup_default(c, name, call) ==
    IF c.default_map.is_none THEN PyNone
    ELSE LET value == IF name \in DOMAIN c.default_map.map
                      THEN c.default_map.map[name] ELSE PyNone
         IN  IF call /\ callable(value) THEN Call(value) ELSE value

\* Parameter.get_default (core.py:1457-1485); lookup_default is called
\* with its own default call=True.
get_default(param, c, call) ==
    LET looked == lookup_default(c, param.name, TRUE)
        value == IF looked = PyNone THEN param.default ELSE looked
    IN  IF call /\ callable(value) THEN Call(value) ELSE value

\* The registrations of a Behaviour, in order.
RECURSIVE RegisterAll(_, _)
RegisterAll(w, cs) ==
    IF cs = <<>> THEN w ELSE RegisterAll(call_on_close(w, Head(cs)), Tail(cs))

RunBehaviour(w, b) == [RegisterAll(w, b.registers) EXCEPT !.exc = b.exc]

\* BaseCommand.parse_args (core.py:686-691) returns args and leaves the
\* context as it is; Command and MultiCommand do not override it.
parse_args(w, cmd, args) == RunBehaviour(w, cmd.parse_args)

\* BaseCommand.make_context (core.py:656-684).
make_context_extra(w, cmd, info_name, args, parent, extra) ==
    LET c == [NewContext(cmd.name, parent, info_name,
                         cmd.context_settings.default_map)
                 EXCEPT !.resilient_parsing = extra.resilient_parsing,
                        !.help_option_names =
                            IF "help_option_names" \in DOMAIN extra
                            THEN extra.help_option_names ELSE @]
        w1 == [w EXCEPT !.ctx = c]
        w2 == ScopeEnter(w1)
        w3 == parse_args(w2, cmd, args)
    IN  ScopeExit(w3, ScopeMode(w1), FALSE)

\* make_context with no extra keyword arguments.
NoExtra == [resilient_parsing |-> FALSE]

make_context(w, cmd, info_name, args, parent) ==
    make_context_extra(w, cmd, info_name, args, parent, NoExtra)

\* What the callback of cmd returns: a value of its own.
ReturnValue(cmd) == [tag |-> "returned", v |-> cmd.name]

\* Context.invoke for a callback, that of cmd (core.py:553-556): the
\* keyword arguments update ctx.params and are what the callback receives.
ContextInvoke(w, cmd, kwargs) ==
    LET w1 == [w EXCEPT !.ctx.params = kwargs @@ @]
        w2 == ScopeEnter(w1)
        w3 == RunBehaviour([w2 EXCEPT !.log = Append(@, CallbackEvent(cmd, w2.ctx, kwargs))],
                           cmd.callback)
        w4 == IF w3.exc = NoExc THEN [w3 EXCEPT !.rv = ReturnValue(cmd)] ELSE w3
    IN  ScopeExit(w4, ScopeMode(w1), FALSE)

\* Command.invoke (core.py:1011-1016); MultiCommand, Group and
\* CommandCollection inherit it.
CommandInvoke(w, cmd) ==
    IF cmd.has_callback THEN ContextInvoke(w, cmd, w.ctx.params) ELSE w

\* Context.invoke (core.py:530-556): given a Command it calls the command's
\* invoke and drops the keyword arguments (core.py:550-551); given a
\* callback, here that of cmd, it goes on as ContextInvoke.
Context_invoke(w, is_command, cmd, kwargs) ==
    IF is_command THEN CommandInvoke(w, cmd) ELSE ContextInvoke(w, cmd, kwargs)

\* The loop of Context.forward (core.py:569-571): the keyword arguments,
\* completed by the values ctx.params has for the command's parameters.
ForwardKwargs(c, cmd, kwargs) ==
    LET names == {cmd.params[i].name : i \in DOMAIN cmd.params}
    IN  kwargs @@ [n \in names \cap DOMAIN c.params |-> c.params[n]]

\* Context.forward (core.py:558-573).
forward(w, cmd, kwargs) ==
    Context_invoke([w EXCEPT !.ctx.params = kwargs @@ @], TRUE, cmd,
                   ForwardKwargs([w.ctx EXCEPT !.params = kwargs @@ @], cmd, kwargs))

(***************************************************************************)
(* "cmd": a declared command, a command line and an environment; the       *)
(* context is built, defaults are looked up, the command is invoked.       *)
(***************************************************************************)
OptionX(default, envvar, expose) == Param("x", "--x", default, envvar, expose)
OptionY == Param("y", "--y", PyNone, None, TRUE)

Leaf(name, params) == Cmd("Command", name, FALSE, params, <<>>, NoMap, Returns, Returns)

DefaultMaps == {NoMap, Map(EmptyMap), Map([n \in {"x"} |-> Str("M")]),
                Map([n \in {"x"} |-> Fn("M")])}

LeafCommands ==
    {Cmd("Command", "cli", FALSE, <<OptionX(d, e, x)>>, <<>>, m, Returns, Returns) :
        d \in {PyNone, Str("D"), Fn("D")}, e \in {None, "XVAR"}, x \in BOOLEAN,
        m \in DefaultMaps}

Subcommands ==
    <<Leaf("sub1", <<OptionX(PyNone, None, TRUE)>>), Leaf("sub2", <<OptionY>>),
      Leaf("sub3", <<>>)>>

Groups ==
    {Cmd("Group", "parent", chain, <<>>, Subcommands, NoMap, Returns, Returns) :
        chain \in BOOLEAN}

CommandLines ==
    {<<>>, <<"--x", "C">>, <<"sub1">>, <<"sub1", "--x", "1">>, <<"sub2", "--y", "2">>,
     <<"sub1", "--x", "1", "sub2", "--y", "2">>}

Environments == {[n \in {"XVAR"} |-> v] : v \in {PyNone, Str("E")}}

InitCmd ==
    /\ part = "cmd"
    /\ IdleTree
    /\ pc = "declared"
    /\ command \in LeafCommands \cup Groups
    /\ argv \in CommandLines
    /\ environ \in Environments
    /\ standalone_mode = TRUE
    /\ incomplete_arg = <<>>
    /\ defaults = EmptyMap
    /\ IdleOrder
    /\ IdleCtx

\* ctx = cmd.make_context(cmd.name, argv)
MakeContext ==
    /\ part = "cmd"
    /\ pc = "declared"
    /\ Becomes(make_context(TheWorld, command, command.name, argv, NoCtx))
    /\ pc' = "built"
    /\ UNCHANGED <<part, declaration_order, invocation_order, order_result,
                   command, argv, environ, standalone_mode, incomplete_arg, frames,
                   defaults,
                   contexts, heap, process>>

\* param.get_default(ctx) for a parameter of the command.
GetDefault ==
    /\ part = "cmd"
    /\ pc = "built"
    /\ \E i \in DOMAIN command.params :
          LET param == command.params[i] IN
          /\ param.name \notin DOMAIN defaults
          /\ defaults' = (param.name :> get_default(param, ctx, TRUE)) @@ defaults
    /\ UNCHANGED <<part, pc, declaration_order, invocation_order, order_result,
                   command, argv, environ, standalone_mode, incomplete_arg, ctx, stack,
                   frames, log, outcome,
                   contexts, heap, process>>

\* cmd.invoke(ctx)
Invoke ==
    /\ part = "cmd"
    /\ pc = "built"
    /\ Becomes(CommandInvoke(TheWorld, command))
    /\ pc' = "invoked"
    /\ UNCHANGED <<part, declaration_order, invocation_order, order_result,
                   command, argv, environ, standalone_mode, incomplete_arg, frames,
                   defaults,
                   contexts, heap, process>>

\* Context.set_parameter_source (core.py:575-582).
set_parameter_source(w, name, source) ==
    [w EXCEPT !.ctx.parameter_source = (name :> source) @@ @]

\* ctx.set_parameter_source(name, source) for a parameter of the command
SetParameterSource ==
    /\ part = "cmd"
    /\ pc = "built"
    /\ \E i \in DOMAIN command.params : \E source \in {"COMMANDLINE", "DEFAULT"} :
          Becomes(set_parameter_source(TheWorld, command.params[i].name, source))
    /\ UNCHANGED <<part, pc, declaration_order, invocation_order, order_result,
                   command, argv, environ, standalone_mode, incomplete_arg, frames,
                   defaults,
                   contexts, heap, process>>

\* The keyword arguments given to ctx.invoke and ctx.forward.
InvokeKwargs == {EmptyMap, [n \in {"x"} |-> Str("K")], [n \in {"z"} |-> Str("K")]}

\* ctx.invoke(cmd, **kwargs) and ctx.invoke(cmd.callback, **kwargs)
CtxInvoke ==
    /\ part = "cmd"
    /\ pc = "built"
    /\ \E is_command \in BOOLEAN : \E kwargs \in InvokeKwargs :
          /\ is_command \/ command.has_callback
          /\ Becomes(Context_invoke(TheWorld, is_command, command, kwargs))
    /\ pc' = "called"
    /\ UNCHANGED <<part, declaration_order, invocation_order, order_result,
                   command, argv, environ, standalone_mode, incomplete_arg, frames,
                   defaults,
                   contexts, heap, process>>

\* ctx.forward(cmd, **kwargs)
Forward ==
    /\ part = "cmd"
    /\ pc = "built"
    /\ \E kwargs \in InvokeKwargs : Becomes(forward(TheWorld, command, kwargs))
    /\ pc' = "forwarded"
    /\ UNCHANGED <<part, declaration_order, invocation_order, order_result,
                   command, argv, environ, standalone_mode, incomplete_arg, frames,
                   defaults,
                   contexts, heap, process>>

NextCmd ==
    MakeContext \/ GetDefault \/ Invoke \/ CtxInvoke \/ Forward \/ SetParameterSource

SpecCmd == InitCmd /\ [][NextCmd]_vars

(***************************************************************************)
(* BaseCommand.main.                                                       *)
(***************************************************************************)
\* exceptions.py is not part of the sources; the hierarchy is the
\* specification's: UsageError and its kin are ClickExceptions, Abort and
\* Exit (the exit request) are not.
IsClickException(e) == e.kind \in {"ClickException", "UsageError", "BadParameter"}

\* errno.EPIPE, the one IOError main turns into an exit (core.py:794).
EPIPE == 32

\* core.py:780 calls self._main_shell_completion with four arguments; its
\* signature (core.py:803) takes at most three.
ShellCompletionArgsGiven == 4
ShellCompletionArgsMax == 3

\* The completion variable of a program, f"_{prog_name.upper()}_COMPLETE"
\* (core.py:817), for the program names in use.
CompleteVar(prog_name) == [cli |-> "_CLI_COMPLETE"][prog_name]

\* os.environ.get(name)
EnvGet(env, name) == IF name \in DOMAIN env THEN env[name] ELSE <<>>

EchoEvent(text) == [ev |-> "echo", text |-> text]

\* The shells with a completion class (shell_completion.py:179).
AvailableShells == {"bash", "fish", "zsh"}

\* shell_completion.shell_complete (shell_completion.py:15-42).  The
\* instruction is the pair its partition("_") yields.  ShellComplete.complete
\* starts with get_completion_args (shell_completion.py:160), which no
\* completion class of the module overrides: NotImplementedError.
shell_complete(w, instruction) ==
    IF instruction[1] \notin AvailableShells THEN [w EXCEPT !.rv = Str("1")]
    ELSE IF instruction[2] = "source"
    THEN [w EXCEPT !.log = Append(@, EchoEvent("source")), !.rv = Str("0")]
    ELSE IF instruction[2] = "complete"
    THEN [w EXCEPT !.exc = Exc("NotImplementedError", 0)]
    ELSE [w EXCEPT !.rv = Str("1")]

\* core.py:825 calls shell_complete(self, ctx_args, instruction); the
\* function (shell_completion.py:15) has five required parameters.
ShellCompleteArgsGiven == 3
ShellCompleteArgsRequired == 5

\* BaseCommand._main_shell_completion (core.py:803-829).
main_shell_completion(w, env, prog_name) ==
    LET instruction == EnvGet(env, CompleteVar(prog_name))
    IN  IF instruction = <<>> THEN w
        ELSE IF ShellCompleteArgsGiven # ShellCompleteArgsRequired
        THEN [w EXCEPT !.exc = Exc("TypeError", 0)]
        ELSE LET w1 == shell_complete(w, instruction)
             IN  IF w1.exc # NoExc THEN w1
                 ELSE [w1 EXCEPT !.log = Append(@, EchoEvent(w1.rv.v)),
                                 !.exc = Exc("SystemExit", 0)]

\* Context.exit (core.py:491-493).
ContextExitRequest(w, code) == [w EXCEPT !.exc = Exc("Exit", code)]

\* The body of the with-block of main (core.py:780-784).  w.exc = NoExc at
\* the end is the `return rv` of line 783.
MainBody(w, cmd, standalone, env) ==
    IF ShellCompletionArgsGiven > ShellCompletionArgsMax
    THEN [w EXCEPT !.exc = Exc("TypeError", 0)]
    ELSE LET w0 == main_shell_completion(w, env, cmd.name)
             w1 == IF w0.exc # NoExc THEN w0 ELSE CommandInvoke(w0, cmd)
         IN  IF w1.exc # NoExc THEN w1
             ELSE IF ~standalone THEN w1
             ELSE ContextExitRequest(w1, 0)

\* How a call of main ends.
Returned(built) == [kind |-> "return", exc |-> NoExc, code |-> 0, built |-> built]
Raised(e, built) == [kind |-> "raise", exc |-> e, code |-> 0, built |-> built]
SysExit(code, built) == [kind |-> "exit", exc |-> NoExc, code |-> code, built |-> built]

\* utils.echo(message, file=sys.stderr) (utils.py:149-209): what it raises.
\* With no message, `message + b'\n'` (utils.py:206-207) adds bytes to None
\* before anything is written.
echo(message) == IF message.tag = "none" THEN Exc("TypeError", 0) ELSE NoExc

\* The except clauses of main (core.py:785-801) for the exception e that
\* left the with statement.  An exception raised inside the first clause,
\* by echo() (core.py:786), leaves main unless it is an Abort.
MainHandle(e, standalone, built) ==
    LET inner == IF e.kind \in {"EOFError", "KeyboardInterrupt"}
                 THEN IF echo(PyNone) # NoExc THEN Raised(echo(PyNone), built)
                      ELSE Raised(Exc("Abort", 0), built)
                 ELSE IF IsClickException(e)
                 THEN IF ~standalone THEN Raised(e, built) ELSE SysExit(e.code, built)
                 ELSE IF e.kind = "IOError"
                 THEN IF e.code = EPIPE THEN SysExit(1, built) ELSE Raised(e, built)
                 ELSE IF e.kind = "SystemExit" THEN SysExit(e.code, built)
                 ELSE Raised(e, built)
    IN  IF inner.kind = "raise" /\ inner.exc.kind = "Abort"
        THEN IF ~standalone THEN inner ELSE SysExit(1, built)
        ELSE inner

\* What the except clauses of main write to stderr (core.py:786, 791, 800):
\* an empty line, the error's own message (ClickException.show), "Aborted!".
MainEcho(e, standalone) ==
    IF e.kind \in {"EOFError", "KeyboardInterrupt"}
    THEN IF echo(PyNone) # NoExc THEN <<>>
         ELSE <<"">> \o (IF standalone THEN <<"Aborted!">> ELSE <<>>)
    ELSE IF IsClickException(e)
    THEN IF standalone THEN <<"show">> ELSE <<>>
    ELSE IF e.kind = "Abort" /\ standalone THEN <<"Aborted!">>
    ELSE <<>>

\* BaseCommand.main (core.py:777-801): the world after the call, and how
\* the call ended.
main(w, cmd, args, standalone, env) ==
    LET w1 == make_context(w, cmd, cmd.name, args, NoCtx)
        built == w1.exc = NoExc
        w2 == IF built THEN ContextExit(MainBody(ContextEnter(w1), cmd, standalone, env))
              ELSE w1
    IN  [w |-> w2,
         outcome |-> IF w2.exc = NoExc
                     THEN Returned(built) @@ [rv |-> w2.rv, stderr |-> <<>>]
                     ELSE MainHandle(w2.exc, standalone, built)
                          @@ [rv |-> PyNone, stderr |-> MainEcho(w2.exc, standalone)]]

(***************************************************************************)
(* "main": a command whose parse_args and callback are the program's own   *)
(* code, run through main() in either mode.                                *)
(***************************************************************************)
\* The exceptions the program's code raises.
Raisable ==
    {NoExc, Exc("UsageError", 2), Exc("ClickException", 1), Exc("Abort", 0),
     Exc("Exit", 0), Exc("Exit", 3), Exc("EOFError", 0), Exc("KeyboardInterrupt", 0),
     Exc("IOError", EPIPE), Exc("IOError", EPIPE + 1), Exc("RuntimeError", 0)}

\* Cleanups 1..n, registered in that order, each raising or not.
CleanupLists ==
    UNION {{[i \in 1..n |-> Cleanup(i, r[i])] : r \in [1..n -> BOOLEAN]} :
              n \in 0..MaxCleanups}

MainCommands ==
    {Cmd("Command", "cli", FALSE, <<>>, <<>>, NoMap, Behaviour(pr, pe),
         Behaviour(cr, ce)) :
        pr \in CleanupLists, pe \in Raisable,
        cr \in {<<>>, <<Cleanup(MaxCleanups + 1, FALSE)>>}, ce \in Raisable}

\* The environment: the completion variable unset, or holding an
\* instruction.
MainEnvironments ==
    {<<>>} \cup {[n \in {"_CLI_COMPLETE"} |-> i] :
                    i \in {<<"bash", "complete">>, <<"bash", "source">>}}

InitMain ==
    /\ part = "main"
    /\ IdleTree
    /\ pc = "start"
    /\ command \in MainCommands
    /\ argv = <<>>
    /\ environ \in MainEnvironments
    /\ standalone_mode \in BOOLEAN
    /\ incomplete_arg = <<>>
    /\ defaults = EmptyMap
    /\ IdleOrder
    /\ IdleCtx

\* cmd.main(argv, standalone_mode=standalone_mode)
Main ==
    /\ part = "main"
    /\ pc = "start"
    /\ LET r == main(TheWorld, command, argv, standalone_mode, environ) IN
       /\ ctx' = r.w.ctx
       /\ stack' = r.w.stack
       /\ log' = r.w.log
       /\ outcome' = r.outcome
    /\ pc' = "done"
    /\ UNCHANGED <<part, declaration_order, invocation_order, order_result,
                   command, argv, environ, standalone_mode, incomplete_arg, frames, defaults,
                   contexts, heap, process>>

NextMain == Main

SpecMain == InitMain /\ [][NextMain]_vars

(***************************************************************************)
(* Shell completion (shell_completion.py, and the shell_complete methods   *)
(* of core.py).  Text that is matched by prefix is a sequence of           *)
(* characters.                                                             *)
(***************************************************************************)
\* str.startswith
startswith(s, prefix) ==
    Len(prefix) <= Len(s) /\ SubSeq(s, 1, Len(prefix)) = prefix

\* What a function returns or raises.
Result(exc, rv) == [exc |-> exc, rv |-> rv]
Return(rv) == Result(NoExc, rv)
Raise(kind) == Result(Exc(kind, 0), <<>>)

\* The methods each command class of core.py defines itself, and those of
\* UserMultiCommand: a subclass of MultiCommand written by the user of the
\* library, which implements the two methods MultiCommand leaves to its
\* subclasses (core.py:1156-1166) over its commands.
Methods ==
    [BaseCommand |-> {"to_info_dict", "make_context", "parse_args", "invoke",
                      "shell_complete", "main", "_main_shell_completion"},
     Command |-> {"get_usage", "format_usage", "collect_usage_pieces",
                  "get_help_option_names", "get_help_option", "make_parser",
                  "get_help", "get_short_help_str", "format_help",
                  "format_help_text", "format_options", "format_epilog",
                  "invoke", "shell_complete"},
     MultiCommand |-> {"result_callback", "format_commands", "get_command",
                       "list_commands", "shell_complete"},
     Group |-> {"add_command", "command", "group"},
     CommandCollection |-> {"add_source"},
     UserMultiCommand |-> {"get_command", "list_commands"}]

\* The classes of core.py a class inherits from, itself first.
Mro ==
    [BaseCommand |-> <<"BaseCommand">>,
     Command |-> <<"Command", "BaseCommand">>,
     MultiCommand |-> <<"MultiCommand", "Command", "BaseCommand">>,
     Group |-> <<"Group", "MultiCommand", "Command", "BaseCommand">>,
     CommandCollection |-> <<"CommandCollection", "MultiCommand", "Command",
                             "BaseCommand">>,
     UserMultiCommand |-> <<"UserMultiCommand", "MultiCommand", "Command",
                            "BaseCommand">>]

\* hasattr(obj, method) for an object of class cls.
HasMethod(cls, method) == \E i \in DOMAIN Mro[cls] : method \in Methods[Mro[cls][i]]

\* The class whose definition of the method an object of class cls runs.
MethodOwner(cls, method) ==
    Mro[cls][CHOOSE i \in DOMAIN Mro[cls] :
                /\ method \in Methods[Mro[cls][i]]
                /\ \A j \in 1..(i - 1) : method \notin Methods[Mro[cls][j]]]

\* isinstance(x, MultiCommand) for a command.
IsMultiCommand(cmd) == "MultiCommand" \in Range(Mro[cmd.kind])

\* isinstance(x, MultiCommand) for what Context.parent holds: None (NoCtx)
\* or a Context, neither of which is a command.
ParentIsMultiCommand(parent) ==
    "kind" \in DOMAIN parent /\ IsMultiCommand(parent)

\* An Option or an Argument: the attributes completion reads
\* (core.py:1380-1400, 1596-1662, 1697-1709).  custom is the list a custom
\* shell_complete function returns, absent when has_custom is FALSE.
Option(name, opts, is_flag, count, nargs, custom) ==
    [cls |-> "Option", name |-> name, opts |-> opts, secondary_opts |-> <<>>,
     is_flag |-> is_flag, count |-> count, nargs |-> nargs, required |-> FALSE,
     has_custom |-> custom # <<>>, custom |-> custom]

\* The characters of the names of the arguments in use.
Characters ==
    [src |-> <<"s", "r", "c">>, files |-> <<"f", "i", "l", "e", "s">>]

Argument(name, nargs, required) ==
    [cls |-> "Argument", name |-> name, opts |-> <<Characters[name]>>,
     secondary_opts |-> <<>>, is_flag |-> FALSE, count |-> FALSE,
     nargs |-> nargs, required |-> required, has_custom |-> FALSE,
     custom |-> <<>>]

\* A command with the attributes completion reads (core.py:877-888).
CompCmd(kind, name, chain, params, commands, hidden) ==
    Cmd(kind, name, chain, params, commands, NoMap, Returns, Returns)
        @@ [hidden |-> hidden, add_help_option |-> TRUE]

\* dict.get(name) on Context.params; a value is None, a string or a list.
ParamValue(c, name) ==
    IF name \in DOMAIN c.params THEN c.params[name] ELSE PyNone

\* _is_incomplete_argument (shell_completion.py:206-225).
is_incomplete_argument(c, param) ==
    IF param.cls # "Argument" THEN FALSE
    ELSE LET value == ParamValue(c, param.name)
         IN  IF value = PyNone THEN TRUE
             ELSE IF value.tag = "list"
             THEN param.nargs = -1 \/ Len(value.v) < param.nargs
             ELSE FALSE

\* _start_of_option (shell_completion.py:227-229): `value and ...` is value
\* itself when value is empty; otherwise ctx.command.params, a list, is
\* asked for .get.
start_of_option(cmd, value) ==
    IF value = <<>> THEN Return(FALSE) ELSE Raise("AttributeError")

\* The loop of _is_incomplete_option (shell_completion.py:245-250) from
\* position index of reversed(args) on; last is last_option (<<>> for None).
RECURSIVE OptionScan(_, _, _, _, _)
OptionScan(cmd, args, param, index, last) ==
    IF index >= Len(args) \/ index + 1 > param.nargs THEN Return(last)
    ELSE LET arg == args[Len(args) - index]
             r == start_of_option(cmd, arg)
         IN  IF r.exc # NoExc THEN r
             ELSE OptionScan(cmd, args, param, index + 1,
                             IF r.rv THEN arg ELSE last)

\* _is_incomplete_option (shell_completion.py:231-252).
is_incomplete_option(cmd, args, param) ==
    IF param.cls # "Option" THEN Return(FALSE)
    ELSE IF param.is_flag THEN Return(FALSE)
    ELSE LET r == OptionScan(cmd, args, param, 0, <<>>)
         IN  IF r.exc # NoExc THEN r
             ELSE Return(r.rv # <<>> /\ r.rv \in Range(param.opts))

\* Command.get_params is called by core.py and shell_completion.py and
\* defined by neither; where a class does define it, it is the
\* specification's: the declared parameters.
get_params(cmd) == cmd.params

\* The child of a multi command registered under a name; NoCommand for None.
Child(cmd, name) ==
    IF \E i \in DOMAIN cmd.commands : cmd.commands[i].name = name
    THEN cmd.commands[CHOOSE i \in DOMAIN cmd.commands : cmd.commands[i].name = name]
    ELSE NoCommand

\* MultiCommand.resolve_command, likewise called (shell_completion.py:268)
\* and not defined: the specification's, the first argument names the child.
resolve_command(cmd, args) ==
    [name |-> Head(args), cmd |-> Child(cmd, Head(args)), args |-> Tail(args)]

\* The command a Context is for, looked up by name in the tree of cli.
RECURSIVE CommandNamed(_, _)
CommandNamed(cli, name) ==
    IF cli.name = name THEN cli
    ELSE LET hits == {i \in DOMAIN cli.commands :
                         CommandNamed(cli.commands[i], name) # NoCommand}
         IN  IF hits = {} THEN NoCommand
             ELSE CommandNamed(cli.commands[CHOOSE i \in hits : TRUE], name)

\* The loop of _resolve_context (shell_completion.py:265-285); cmd is
\* ctx.command.
RECURSIVE ResolveLoop(_, _, _)
ResolveLoop(w, cmd, args) ==
    IF args = <<>> \/ ~IsMultiCommand(cmd) THEN w
    ELSE IF ~HasMethod(cmd.kind, "resolve_command")
    THEN [w EXCEPT !.exc = Exc("AttributeError", 0)]
    ELSE LET r == resolve_command(cmd, args)
         IN  IF r.cmd = NoCommand THEN w
             ELSE LET w1 == make_context_extra(w, r.cmd, r.name, r.args, w.ctx,
                                               [resilient_parsing |-> TRUE])
                      rest == w1.ctx.protected_args \o w1.ctx.args
                  IN  IF w1.exc # NoExc THEN w1
                      ELSE IF ~cmd.chain THEN ResolveLoop(w1, r.cmd, rest)
                      ELSE ResolveLoop([w1 EXCEPT !.ctx = [w.ctx EXCEPT !.command = r.name]],
                                       r.cmd, rest)

\* _resolve_context (shell_completion.py:254-287).
resolve_context(w, cli, ctx_args, prog_name, args) ==
    LET w1 == make_context_extra(w, cli, prog_name, args, NoCtx, ctx_args)
    IN  IF w1.exc # NoExc THEN w1 ELSE ResolveLoop(w1, cli, args)

\* The object _resolve_incomplete chooses.
ChosenParam(param) == [obj |-> "Parameter", name |-> param.name]
ChosenCommand(cmd) == [obj |-> "Command", name |-> cmd.name]

\* The first loop of _resolve_incomplete (shell_completion.py:300-302).
RECURSIVE FirstIncompleteOption(_, _, _)
FirstIncompleteOption(cmd, args, params) ==
    IF params = <<>> THEN Return(<<>>)
    ELSE LET r == is_incomplete_option(cmd, args, Head(params))
         IN  IF r.exc # NoExc THEN r
             ELSE IF r.rv THEN Return(<<Head(params)>>)
             ELSE FirstIncompleteOption(cmd, args, Tail(params))

\* _resolve_incomplete (shell_completion.py:289-308); cmd is ctx.command.
resolve_incomplete(c, cmd, args, incomplete) ==
    IF ~HasMethod(cmd.kind, "get_params") THEN Raise("AttributeError")
    ELSE LET params == get_params(cmd)
             opt == FirstIncompleteOption(cmd, args, params)
             open == SelectSeq(params, LAMBDA p : is_incomplete_argument(c, p))
         IN  IF opt.exc # NoExc THEN opt
             ELSE IF opt.rv # <<>> THEN Return(ChosenParam(opt.rv[1]))
             ELSE IF open # <<>> THEN Return(ChosenParam(open[1]))
             ELSE Return(ChosenCommand(cmd))

\* Parameter.shell_complete (core.py:1511-1532): the custom function's
\* values; without one the type's, which types.py gives as none.
param_shell_complete(param, incomplete) ==
    IF param.has_custom THEN param.custom ELSE <<>>

\* cmd.list_commands(ctx): MultiCommand.list_commands (core.py:1162-1166),
\* which Group and CommandCollection do not override; a subclass of the
\* user gives the names of its commands.
list_commands(cmd) ==
    IF MethodOwner(cmd.kind, "list_commands") = "MultiCommand" THEN <<>>
    ELSE [i \in DOMAIN cmd.commands |-> cmd.commands[i].name]

\* cmd.get_command(ctx, name): MultiCommand.get_command (core.py:1156-1160),
\* which Group and CommandCollection do not override; a subclass of the
\* user gives the command of that name, or None.
get_command(cmd, name) ==
    IF MethodOwner(cmd.kind, "get_command") = "MultiCommand"
    THEN Raise("NotImplementedError")
    ELSE Return(Child(cmd, name))

\* The names _complete_visible_commands would yield without its test of
\* hidden.
RECURSIVE HiddenOffered(_, _, _)
HiddenOffered(cmd, names, incomplete) ==
    IF names = <<>> THEN Return(<<>>)
    ELSE LET g == get_command(cmd, Head(names))
         IN  IF g.exc # NoExc THEN g
             ELSE LET rest == HiddenOffered(cmd, Tail(names), incomplete)
                      keep == g.rv # NoCommand /\ startswith(Head(names), incomplete)
                  IN  IF rest.exc # NoExc THEN rest
                      ELSE Return((IF keep THEN <<Head(names)>> ELSE <<>>) \o rest.rv)

\* _complete_visible_commands (core.py:44-55) for the command of its ctx
\* argument: the names it yields.
RECURSIVE VisibleFrom(_, _, _)
VisibleFrom(cmd, names, incomplete) ==
    IF names = <<>> THEN Return(<<>>)
    ELSE LET g == get_command(cmd, Head(names))
         IN  IF g.exc # NoExc THEN g
             ELSE LET rest == VisibleFrom(cmd, Tail(names), incomplete)
                      keep == g.rv # NoCommand /\ ~g.rv.hidden
                                  /\ startswith(Head(names), incomplete)
                  IN  IF rest.exc # NoExc THEN rest
                      ELSE Return((IF keep THEN <<Head(names)>> ELSE <<>>) \o rest.rv)

complete_visible_commands(cmd, incomplete) ==
    IF IsMultiCommand(cmd) THEN VisibleFrom(cmd, list_commands(cmd), incomplete)
    ELSE Return(<<>>)

\* BaseCommand.shell_complete (core.py:699-722).  ctx.parent is None or a
\* Context; were it a multi command, _complete_visible_commands would read
\* its .command (core.py:51): the decorator method of a Group
\* (core.py:1224), which is no MultiCommand, so nothing is yielded; an
\* attribute the other multi commands do not have.
BaseCommand_shell_complete(c, cmd, incomplete) ==
    IF ParentIsMultiCommand(c.parent) /\ ~HasMethod(c.parent.kind, "command")
    THEN Raise("AttributeError")
    ELSE Return(<<>>)

\* The completions of the parameters, in order (core.py:1031-1032).
RECURSIVE ParamCompletions(_, _)
ParamCompletions(params, incomplete) ==
    IF params = <<>> THEN <<>>
    ELSE param_shell_complete(Head(params), incomplete)
             \o ParamCompletions(Tail(params), incomplete)

\* Command.shell_complete (core.py:1018-1040).  For a multi command
\* _complete_visible_commands is given the command itself, which has no
\* .command; CompletionItem has no start_with, its __getattr__ gives None
\* (shell_completion.py:70-71), and calling None is a TypeError.
Command_shell_complete(c, cmd, incomplete) ==
    IF ~HasMethod(cmd.kind, "get_params") THEN Raise("AttributeError")
    ELSE LET results == ParamCompletions(get_params(cmd), incomplete)
         IN  IF IsMultiCommand(cmd) THEN Raise("AttributeError")
             ELSE IF results # <<>> THEN Raise("TypeError")
             ELSE Return(<<>>)

\* MultiCommand.shell_complete (core.py:1168-1186).
MultiCommand_shell_complete(c, cmd, incomplete) ==
    LET r == Command_shell_complete(c, cmd, incomplete)
    IN  IF r.exc # NoExc THEN r
        ELSE Return(r.rv \o SelectSeq(list_commands(cmd),
                                      LAMBDA name : startswith(name, incomplete)))

\* cmd.shell_complete(ctx, incomplete), by the class of cmd.
command_shell_complete(c, cmd, incomplete) ==
    LET owner == MethodOwner(cmd.kind, "shell_complete")
    IN  IF owner = "MultiCommand" THEN MultiCommand_shell_complete(c, cmd, incomplete)
        ELSE IF owner = "Command" THEN Command_shell_complete(c, cmd, incomplete)
        ELSE BaseCommand_shell_complete(c, cmd, incomplete)

\* The parameter of cmd with a name.
ParamNamed(cmd, name) ==
    cmd.params[CHOOSE i \in DOMAIN cmd.params : cmd.params[i].name = name]

\* ShellComplete.get_completions (shell_completion.py:133-143): the world
\* after it, and what it returned or raised.
get_completions(w, cli, ctx_args, prog_name, args, incomplete) ==
    LET w1 == resolve_context(w, cli, ctx_args, prog_name, args)
        cmd == CommandNamed(cli, w1.ctx.command)
        obj == resolve_incomplete(w1.ctx, cmd, args, incomplete)
    IN  [w |-> w1,
         result |->
            IF w1.exc # NoExc THEN Result(w1.exc, <<>>)
            ELSE IF obj.exc # NoExc THEN obj
            ELSE IF obj.rv.obj = "Parameter"
            THEN Return(param_shell_complete(ParamNamed(cmd, obj.rv.name), incomplete))
            ELSE command_shell_complete(w1.ctx, cmd, incomplete)]


(***************************************************************************)
(* The help option (core.py:918-944).                                      *)
(***************************************************************************)
ShortHelpOpt == <<"-", "h">>

\* The characters in use, in the order of their code points.
Alphabet ==
    <<"-", "a", "b", "c", "d", "e", "f", "g", "h", "i", "j", "k", "l", "m", "n",
      "o", "p", "q", "r", "s", "t", "u", "v", "w", "x", "y", "z">>

Ord(ch) == CHOOSE i \in DOMAIN Alphabet : Alphabet[i] = ch

\* Python's order on strings.
RECURSIVE StrLess(_, _)
StrLess(a, b) ==
    IF a = <<>> THEN b # <<>>
    ELSE IF b = <<>> THEN FALSE
    ELSE IF a[1] = b[1] THEN StrLess(Tail(a), Tail(b))
    ELSE Ord(a[1]) < Ord(b[1])

\* sorted(a set of strings)
RECURSIVE SortedSet(_)
SortedSet(S) ==
    IF S = {} THEN <<>>
    ELSE LET m == CHOOSE x \in S : \A y \in S \ {x} : StrLess(x, y)
         IN  <<m>> \o SortedSet(S \ {m})

\* The opts and secondary_opts of every parameter (core.py:920-922); an
\* Argument's opts is its name.
DeclaredOpts(cmd) ==
    UNION {Range(cmd.params[i].opts) \cup Range(cmd.params[i].secondary_opts) :
              i \in DOMAIN cmd.params}

\* Command.get_help_option_names (core.py:918-924).
get_help_option_names(c, cmd) ==
    SortedSet(Range(c.help_option_names) \ DeclaredOpts(cmd))

\* The methods Parameter, Option and Argument define (core.py:1305-1709).
ParameterMethods ==
    {"to_info_dict", "human_readable_name", "get_default", "type_cast_value",
     "get_error_hint", "shell_complete", "prompt_for_value"}

\* Option(param_decls, is_flag=..., is_eager=..., expose_value=...,
\* callback=...): Parameter.__init__ starts with self._parse_decls
\* (core.py:1384).
NewOption(param_decls, is_flag, is_eager, expose_value, callback) ==
    IF "_parse_decls" \notin ParameterMethods THEN Raise("AttributeError")
    ELSE Return(Option("help", param_decls, is_flag, FALSE, 1, <<>>)
                    @@ [is_eager |-> is_eager, expose_value |-> expose_value,
                        callback |-> callback])

\* Context.get_help (core.py:503-509): Command.format_help starts with
\* format_usage, whose collect_usage_pieces calls self.get_params
\* (core.py:912).
context_get_help(w, cmd) ==
    IF ~HasMethod(cmd.kind, "get_params")
    THEN [w EXCEPT !.exc = Exc("AttributeError", 0)]
    ELSE [w EXCEPT !.rv = Str("help page")]

\* show_help, the callback of the help option (core.py:932-935).
show_help(w, cmd, value) ==
    IF value /\ ~w.ctx.resilient_parsing
    THEN LET w1 == context_get_help(w, cmd)
         IN  IF w1.exc # NoExc THEN w1
             ELSE ContextExitRequest(
                      [w1 EXCEPT !.log = Append(@, EchoEvent(w1.rv.v))], 0)
    ELSE w

\* Command.get_help_option (core.py:926-944); <<>> stands for None.
get_help_option(c, cmd) ==
    LET help_options == get_help_option_names(c, cmd)
    IN  IF help_options = <<>> \/ ~cmd.add_help_option THEN Return(<<>>)
        ELSE NewOption(help_options, TRUE, TRUE, FALSE, "show_help")

(***************************************************************************)
(* "comp": completion of a partial command line for a declared program.    *)
(***************************************************************************)
ProgName == <<"c", "l", "i">>
SubName == <<"s", "u", "b">>
SupName == <<"s", "u", "p">>
FlagOpt == <<"-", "-", "f", "l", "a", "g">>
NameOpt == <<"-", "-", "n", "a", "m", "e">>
CountOpt == <<"-", "v">>

ParamLists ==
    {<<>>,
     <<Option("flag", <<FlagOpt>>, TRUE, FALSE, 1, <<>>)>>,
     <<Option("name", <<NameOpt>>, FALSE, FALSE, 1, <<>>), Argument("src", 1, TRUE)>>,
     <<Option("v", <<CountOpt>>, FALSE, TRUE, 1, <<>>), Argument("files", -1, FALSE)>>,
     <<Option("name", <<NameOpt>>, FALSE, FALSE, 1, <<SubName, SupName>>),
       Option("flag", <<FlagOpt>>, TRUE, FALSE, 1, <<>>)>>}

CompLeaves == {CompCmd("Command", ProgName, FALSE, ps, <<>>, FALSE) : ps \in ParamLists}

CompGroups ==
    {CompCmd("Group", ProgName, chain, <<>>,
             <<CompCmd("Command", SubName, FALSE, ps, <<>>, h1),
               CompCmd("Command", SupName, FALSE, <<>>, <<>>, h2)>>, FALSE) :
        chain \in BOOLEAN, h1 \in BOOLEAN, h2 \in BOOLEAN,
        ps \in {p \in ParamLists : Len(p) = 1 \/ Len(p) = 2}}

\* Multi commands of a subclass of the user that lists and looks up its
\* commands.
CompUserGroups ==
    {CompCmd("UserMultiCommand", ProgName, FALSE, <<>>,
             <<CompCmd("Command", SubName, FALSE, <<>>, <<>>, h1),
               CompCmd("Command", SupName, FALSE, <<>>, <<>>, h2)>>, FALSE) :
        h1 \in BOOLEAN, h2 \in BOOLEAN}

CompleteArgs == {<<>>, <<SubName>>, <<NameOpt>>, <<SubName, NameOpt>>, <<<<>>>>}

Incompletes == {<<>>, <<"s">>, <<"s", "u">>, <<"-", "-">>, <<"-", "-", "f", "l", "a">>}

CtxArgs == {NoExtra, [resilient_parsing |-> TRUE]}

\* How a call of a completion function ended: the function, the object it
\* was called for, and what it returned or raised.
CompOutcome(call, target, r) ==
    [kind |-> IF r.exc = NoExc THEN "return" ELSE "raise", exc |-> r.exc,
     rv |-> r.rv, call |-> call, target |-> target]

\* The commands of the program: the root and its children.
CompTargets == {command} \cup Range(command.commands)

InitComp ==
    /\ part = "comp"
    /\ IdleTree
    /\ pc = "start"
    /\ command \in CompLeaves \cup CompGroups \cup CompUserGroups
    /\ argv \in CompleteArgs
    /\ incomplete_arg \in Incompletes
    /\ environ = <<>>
    /\ standalone_mode = TRUE
    /\ defaults = EmptyMap
    /\ IdleOrder
    /\ IdleCtx

CompDone(w, o) ==
    /\ ctx' = w.ctx
    /\ stack' = w.stack
    /\ log' = w.log
    /\ outcome' = o
    /\ pc' = "done"
    /\ UNCHANGED <<part, declaration_order, invocation_order, order_result,
                   command, argv, environ, standalone_mode, incomplete_arg, frames,
                   defaults,
                   contexts, heap, process>>

\* comp.get_completions(args, incomplete), for some ctx_args
GetCompletions ==
    /\ part = "comp"
    /\ pc = "start"
    /\ \E ctx_args \in CtxArgs :
          LET r == get_completions(TheWorld, command, ctx_args, ProgName, argv,
                                   incomplete_arg)
          IN  CompDone(r.w, CompOutcome("get_completions", command.name, r.result))

\* ctx = cli.make_context(prog_name, args); _resolve_incomplete(ctx, args, incomplete)
ResolveIncomplete ==
    /\ part = "comp"
    /\ pc = "start"
    /\ LET w == make_context(TheWorld, command, ProgName, argv, NoCtx)
       IN  CompDone(w, CompOutcome("resolve_incomplete", command.name,
                        resolve_incomplete(w.ctx, command, argv, incomplete_arg)))

\* _is_incomplete_option(ctx, args, param) for a parameter of a command
IsIncompleteOption ==
    /\ part = "comp"
    /\ pc = "start"
    /\ \E cmd \in CompTargets : \E i \in DOMAIN cmd.params :
          LET w == make_context(TheWorld, cmd, cmd.name, argv, NoCtx)
          IN  CompDone(w, CompOutcome("is_incomplete_option", cmd.params[i],
                           is_incomplete_option(cmd, argv, cmd.params[i])))

\* _is_incomplete_argument(ctx, param) for a parameter of a command
IsIncompleteArgument ==
    /\ part = "comp"
    /\ pc = "start"
    /\ \E cmd \in CompTargets : \E i \in DOMAIN cmd.params :
          LET w == make_context(TheWorld, cmd, cmd.name, argv, NoCtx)
          IN  CompDone(w, CompOutcome("is_incomplete_argument", cmd.params[i],
                           Return(is_incomplete_argument(w.ctx, cmd.params[i]))))

\* ctx = cli.make_context(prog_name, []); cli.shell_complete(ctx, incomplete)
ShellCompleteRoot ==
    /\ part = "comp"
    /\ pc = "start"
    /\ LET w == make_context(TheWorld, command, ProgName, <<>>, NoCtx)
       IN  CompDone(w, CompOutcome("shell_complete", command.name,
                        command_shell_complete(w.ctx, command, incomplete_arg)))

\* The Context of a child command under the Context of the root.
ChildWorld(cmd) ==
    LET w == make_context(TheWorld, command, ProgName, <<>>, NoCtx)
    IN  make_context_extra(w, cmd, cmd.name, <<>>, w.ctx, [resilient_parsing |-> TRUE])

\* sub.shell_complete(sub_ctx, incomplete) for a child command
ShellCompleteChild ==
    /\ part = "comp"
    /\ pc = "start"
    /\ \E i \in DOMAIN command.commands :
          LET cmd == command.commands[i]
              w == ChildWorld(cmd)
          IN  CompDone(w, CompOutcome("shell_complete", cmd.name,
                           command_shell_complete(w.ctx, cmd, incomplete_arg)))

\* BaseCommand.shell_complete(sub, sub_ctx, incomplete) for a child command
BaseShellCompleteChild ==
    /\ part = "comp"
    /\ pc = "start"
    /\ \E i \in DOMAIN command.commands :
          LET cmd == command.commands[i]
              w == ChildWorld(cmd)
          IN  CompDone(w, CompOutcome("base_shell_complete", cmd.name,
                           BaseCommand_shell_complete(w.ctx, cmd, incomplete_arg)))

\* ctx = cli.make_context(prog_name, []); list(_complete_visible_commands(ctx, incomplete))
CompleteVisibleCommands ==
    /\ part = "comp"
    /\ pc = "start"
    /\ LET w == make_context(TheWorld, command, ProgName, <<>>, NoCtx)
       IN  CompDone(w, CompOutcome("complete_visible_commands", command.name,
                        complete_visible_commands(command, incomplete_arg)))

\* The keyword arguments make_context is given for the help option.
HelpExtras ==
    [resilient_parsing : BOOLEAN,
     help_option_names : {<<>>, <<HelpOpt>>, <<ShortHelpOpt, HelpOpt>>,
                          <<FlagOpt>>, <<Characters.src>>}]

\* ctx = cmd.make_context(name, [], **extra); cmd.get_help_option_names(ctx)
GetHelpOptionNames ==
    /\ part = "comp"
    /\ pc = "start"
    /\ \E cmd \in CompTargets : \E extra \in HelpExtras :
          LET w == make_context_extra(TheWorld, cmd, cmd.name, <<>>, NoCtx, extra)
          IN  CompDone(w, CompOutcome("get_help_option_names", cmd,
                           Return(get_help_option_names(w.ctx, cmd))))

\* ctx = cmd.make_context(name, [], **extra); cmd.get_help_option(ctx), for
\* a command with add_help_option set or not
GetHelpOption ==
    /\ part = "comp"
    /\ pc = "start"
    /\ \E c \in CompTargets : \E extra \in HelpExtras : \E add \in BOOLEAN :
          LET cmd == [c EXCEPT !.add_help_option = add]
              w == make_context_extra(TheWorld, cmd, cmd.name, <<>>, NoCtx, extra)
          IN  CompDone(w, CompOutcome("get_help_option", cmd,
                           get_help_option(w.ctx, cmd)))

NextComp ==
    \/ GetHelpOptionNames
    \/ GetHelpOption
    \/ GetCompletions
    \/ ResolveIncomplete
    \/ IsIncompleteOption
    \/ IsIncompleteArgument
    \/ ShellCompleteRoot
    \/ ShellCompleteChild
    \/ BaseShellCompleteChild
    \/ CompleteVisibleCommands

SpecComp == InitComp /\ [][NextComp]_vars

(***************************************************************************)
(* "reg": building a Group and registering commands with it                *)
(* (core.py:1070-1087, 1206-1222).  An empty name stands for None.         *)
(***************************************************************************)
\* The functions core.py defines at module level (core.py:44-80, 1294).
CoreFunctions ==
    {"_complete_visible_commands", "augment_usage_errors",
     "iter_params_for_processing", "_check_iter"}

\* d[name] = cmd on a dict kept as the sequence of its values in insertion
\* order, each under the key in its name field.
DictSet(d, name, cmd) ==
    LET v == [cmd EXCEPT !.name = name]
    IN  IF \E i \in DOMAIN d : d[i].name = name
        THEN [i \in DOMAIN d |-> IF d[i].name = name THEN v ELSE d[i]]
        ELSE Append(d, v)

\* {c.name: c for c in commands if c.name is not None} (core.py:1211)
RECURSIVE DictOfSequence(_)
DictOfSequence(commands) ==
    IF commands = <<>> THEN <<>>
    ELSE LET n == Len(commands)
             d == DictOfSequence(SubSeq(commands, 1, n - 1))
         IN  IF commands[n].name = <<>> THEN d
             ELSE DictSet(d, commands[n].name, commands[n])

\* isinstance(param, Argument) and not param.required (core.py:1086)
IsOptionalArgument(param) == param.cls = "Argument" /\ ~param.required

\* MultiCommand.__init__ (core.py:1070-1087): in chain mode the parameters
\* looked at are self.params, the group's own.
MultiCommand_init(name, chain, params) ==
    IF chain /\ \E i \in DOMAIN params : IsOptionalArgument(params[i])
    THEN Raise("RuntimeError")
    ELSE Return(CompCmd("MultiCommand", name, chain, params, <<>>, FALSE))

\* Group.__init__ (core.py:1206-1212) with a sequence of commands.
Group_init(name, chain, params, commands) ==
    LET r == MultiCommand_init(name, chain, params)
    IN  IF r.exc # NoExc THEN r
        ELSE Return([r.rv EXCEPT !.kind = "Group",
                                 !.commands = DictOfSequence(commands)])

\* Group.add_command (core.py:1214-1222): the group afterwards and what the
\* call raised.
add_command(self, cmd, name) ==
    LET key == IF name # <<>> THEN name ELSE cmd.name
    IN  IF key = <<>> THEN [self |-> self, exc |-> Exc("TypeError", 0)]
        ELSE IF "_check_multicommand" \notin CoreFunctions
        THEN [self |-> self, exc |-> Exc("NameError", 0)]
        ELSE [self |-> [self EXCEPT !.commands = DictSet(@, key, cmd)],
              exc |-> NoExc]

RegChildren ==
    {CompCmd("Command", name, FALSE, ps, <<>>, FALSE) :
        name \in {SubName, SupName, <<>>},
        ps \in {<<>>, <<Argument("src", 1, TRUE)>>,
                 <<Argument("files", -1, FALSE)>>}}

RegOwnParams ==
    {<<>>, <<Option("flag", <<FlagOpt>>, TRUE, FALSE, 1, <<>>)>>,
     <<Argument("files", -1, FALSE)>>}

RegCommandLists ==
    {<<>>} \cup {<<c>> : c \in RegChildren}
           \cup {<<c, d>> : c \in RegChildren, d \in RegChildren}

InitReg ==
    /\ part = "reg"
    /\ IdleTree
    /\ pc = "start"
    /\ IdleOrder
    /\ IdleCmd
    /\ IdleCtx

RegDone(next, cmd, o) ==
    /\ pc' = next
    /\ command' = cmd
    /\ outcome' = o
    /\ UNCHANGED <<part, declaration_order, invocation_order, order_result,
                   argv, environ, standalone_mode, incomplete_arg, ctx, stack,
                   frames, log, defaults,
                   contexts, heap, process>>

\* Group("cli", commands=commands, chain=chain, params=params)
NewGroup ==
    /\ part = "reg"
    /\ pc = "start"
    /\ \E chain \in BOOLEAN : \E params \in RegOwnParams :
       \E commands \in RegCommandLists :
          LET r == Group_init(ProgName, chain, params, commands)
              o == [call |-> "Group", chain |-> chain, given |-> commands,
                    kind |-> IF r.exc = NoExc THEN "return" ELSE "raise",
                    exc |-> r.exc]
          IN  IF r.exc = NoExc THEN RegDone("built", r.rv, o)
              ELSE RegDone("failed", NoCommand, o)

\* group.add_command(cmd, name)
AddCommand ==
    /\ part = "reg"
    /\ pc = "built"
    /\ HasMethod(command.kind, "add_command")
    /\ \E cmd \in RegChildren : \E name \in {<<>>, SupName} :
          LET r == add_command(command, cmd, name)
          IN  RegDone("built", r.self,
                      [call |-> "add_command", chain |-> command.chain,
                       given |-> <<cmd>>,
                       kind |-> IF r.exc = NoExc THEN "return" ELSE "raise",
                       exc |-> r.exc])

\* What a call on the built object gave: the value returned or the error.
RegOutcome(call, given, arg, r) ==
    [call |-> call, chain |-> command.chain, given |-> given, arg |-> arg,
     kind |-> IF r.exc = NoExc THEN "return" ELSE "raise", exc |-> r.exc,
     rv |-> r.rv]

\* The names looked up: two that are registered in some groups, one never.
LookupNames == {SubName, SupName, ProgName}

\* obj.get_command(ctx, name) on the Group or CommandCollection built
GetCommand ==
    /\ part = "reg"
    /\ pc = "built"
    /\ \E name \in LookupNames :
          RegDone("built", command,
                  RegOutcome("get_command", <<>>, name, get_command(command, name)))

\* obj.list_commands(ctx) on the Group or CommandCollection built
ListCommands ==
    /\ part = "reg"
    /\ pc = "built"
    /\ RegDone("built", command,
               RegOutcome("list_commands", <<>>, <<>>,
                          Return(list_commands(command))))

\* CommandCollection.__init__ (core.py:1286-1288)
CommandCollection_init(name, sources) ==
    LET r == MultiCommand_init(name, FALSE, <<>>)
    IN  IF r.exc # NoExc THEN r
        ELSE Return([r.rv EXCEPT !.kind = "CommandCollection"]
                        @@ [sources |-> sources])

\* CommandCollection.add_source (core.py:1290-1292)
add_source(self, multi_cmd) == [self EXCEPT !.sources = Append(@, multi_cmd)]

MaxSources == 2

\* Groups that serve as sources; "sub" is in several of them, declared
\* differently.
RegSources ==
    {Group_init(SupName, FALSE, <<>>, cs).rv :
        cs \in {<<>>,
                <<CompCmd("Command", SubName, FALSE, <<>>, <<>>, FALSE)>>,
                <<CompCmd("Command", SubName, FALSE,
                          <<Argument("src", 1, TRUE)>>, <<>>, FALSE),
                  CompCmd("Command", SupName, FALSE, <<>>, <<>>, FALSE)>>}}

\* CommandCollection("cli", sources=sources)
NewCollection ==
    /\ part = "reg"
    /\ pc = "start"
    /\ \E sources \in {<<>>} \cup {<<g>> : g \in RegSources} :
          LET r == CommandCollection_init(ProgName, sources)
          IN  RegDone("built", r.rv,
                      [call |-> "CommandCollection", chain |-> FALSE,
                       given |-> <<>>, kind |-> "return", exc |-> r.exc])

\* collection.add_source(multi_cmd)
AddSource ==
    /\ part = "reg"
    /\ pc = "built"
    /\ HasMethod(command.kind, "add_source")
    /\ Len(command.sources) < MaxSources
    /\ \E g \in RegSources :
          RegDone("built", add_source(command, g),
                  [call |-> "add_source", chain |-> FALSE, given |-> <<>>,
                   kind |-> "return", exc |-> NoExc])

NextReg ==
    \/ NewGroup
    \/ AddCommand
    \/ GetCommand
    \/ ListCommands
    \/ NewCollection
    \/ AddSource

SpecReg == InitReg /\ [][NextReg]_vars

(***************************************************************************)
(* "tree": Contexts constructed under one another, their inherited         *)
(* settings and their shared meta dict (core.py:202-260, 333-359).         *)
(***************************************************************************)
MaxContexts == 3

\* InitMeta as a bug would have it: the child gets a copy of the parent's
\* dict.
InitMetaCopy(h, parent) ==
    IF parent.exists THEN [heap |-> Append(h, h[parent.meta]), ref |-> Len(h) + 1]
    ELSE [heap |-> Append(h, EmptyMap), ref |-> Len(h) + 1]

\* self._meta = getattr(parent, 'meta', {}) (core.py:213): the parent's dict
\* object, or a new empty one.  h is the heap, the result the heap
\* afterwards and the reference stored.
InitMeta(h, parent) ==
    IF parent.exists THEN [heap |-> h, ref |-> parent.meta]
    ELSE [heap |-> Append(h, EmptyMap), ref |-> Len(h) + 1]

\* Context(command, parent=parent, info_name=info_name, **kw)
TreeContext(h, parent, info_name, kw) ==
    LET m == InitMeta(h, parent)
    IN  [heap |-> m.heap,
         obj |-> Context_init(ProgName, parent, info_name, NoMap, kw)
                     @@ [meta |-> m.ref]]

DashedName == <<"m", "y", "-", "c", "m", "d">>

TreeInfoNames == {DashedName, <<>>}

TreeKwargs ==
    {NoKw,
     [color |-> Bool(FALSE), show_default |-> Bool(TRUE),
      terminal_width |-> Num(80), max_content_width |-> Num(100),
      token_normalize_func |-> Fn("lower"),
      help_option_names |-> <<ShortHelpOpt>>],
     [auto_envvar_prefix |-> Str(<<"M", "y", "-", "a", "p", "p">>)],
     [color |-> Bool(TRUE), help_option_names |-> <<>>]}

InitTree ==
    /\ part = "tree"
    /\ pc = "start"
    /\ contexts = <<>>
    /\ heap = <<>>
    /\ process = <<>>
    /\ IdleOrder
    /\ IdleCmd
    /\ IdleCtx

TreeUnchanged ==
    UNCHANGED <<part, pc, declaration_order, invocation_order, order_result,
                command, argv, environ, standalone_mode, incomplete_arg, ctx,
                stack, frames, log, defaults, outcome, process>>

\* Context(command, parent=p, info_name=info_name, **kw), p one of the
\* contexts constructed before or None (0)
Construct ==
    /\ part = "tree"
    /\ Len(contexts) < MaxContexts
    /\ \E p \in 0..Len(contexts) : \E info_name \in TreeInfoNames :
       \E kw \in TreeKwargs :
          LET parent == IF p = 0 THEN NoCtx ELSE contexts[p].obj
              r == TreeContext(heap, parent, info_name, kw)
          IN  /\ contexts' = Append(contexts, [obj |-> r.obj, parent |-> p, kw |-> kw])
              /\ heap' = r.heap
    /\ TreeUnchanged

\* The first n of the contexts cs, the parent attribute of each showing the
\* parent object as it is now: a Context refers to its parent, it holds no
\* copy of it.
RECURSIVE Relinked(_, _)
Relinked(cs, n) ==
    IF n = 0 THEN <<>>
    ELSE Append(Relinked(cs, n - 1),
                [cs[n] EXCEPT !.obj.parent =
                    IF cs[n].parent = 0 THEN NoCtx
                    ELSE Relinked(cs, cs[n].parent)[cs[n].parent].obj])

\* contexts[i].color = True, an assignment after construction
SetColor ==
    /\ part = "tree"
    /\ \E i \in DOMAIN contexts :
          contexts' = Relinked([contexts EXCEPT ![i].obj.color = Bool(TRUE)],
                               Len(contexts))
    /\ UNCHANGED heap
    /\ TreeUnchanged

MetaKeys == {"lang"}
MetaValues == {"en"}

\* contexts[i].meta[key] = value (core.py:333-359: meta returns self._meta)
MetaSet ==
    /\ part = "tree"
    /\ \E i \in DOMAIN contexts : \E key \in MetaKeys : \E value \in MetaValues :
          heap' = [heap EXCEPT ![contexts[i].obj.meta] = (key :> value) @@ @]
    /\ UNCHANGED contexts
    /\ TreeUnchanged

NextTree ==
    \/ Construct
    \/ SetColor
    \/ MetaSet

SpecTree == InitTree /\ [][NextTree]_vars

(***************************************************************************)
(* "param": constructing a Parameter and converting a raw value            *)
(* (core.py:1380-1422, 1487-1500, 1697-1709).                              *)
(***************************************************************************)
\* A tuple or list value.
Tuple(x) == [tag |-> "tuple", items |-> x]

\* A raw string as the parser hands it over, by its characters.
Raw(chars) == [tag |-> "str", chars |-> chars]

Digits == <<"0", "1", "2", "3", "4", "5", "6", "7", "8", "9">>

IsDigit(ch) == \E d \in DOMAIN Digits : Digits[d] = ch

\* int(chars) for a string of digits
RECURSIVE Decimal(_)
Decimal(chars) ==
    IF chars = <<>> THEN 0
    ELSE LET n == Len(chars)
         IN  10 * Decimal(SubSeq(chars, 1, n - 1))
                 + (CHOOSE d \in DOMAIN Digits : Digits[d] = chars[n]) - 1

\* The converter of the parameter's type, called on one value (types.py):
\* a raw string of digits becomes the integer, anything else is a bad
\* parameter.
convert(x) ==
    IF /\ x.tag = "str"
       /\ x.chars # <<>>
       /\ \A i \in DOMAIN x.chars : IsDigit(x.chars[i])
    THEN Return(Num(Decimal(x.chars)))
    ELSE Raise("BadParameter")

\* A parameter type as core.py reads it (types.py): whether it is composite
\* and its arity.  INT converts one value; a Tuple of two INTs is composite
\* and takes two.
IntType == [name |-> "INT", is_composite |-> FALSE, arity |-> 1]
TupleType == [name |-> "Tuple", is_composite |-> TRUE, arity |-> 2]

ParamTypes == {IntType, TupleType}

\* What `for x in value` goes through: the items of a tuple, the characters
\* of a string.
Iterate(value) ==
    IF value.tag = "tuple" THEN value.items
    ELSE [i \in DOMAIN value.chars |-> Raw(<<value.chars[i]>>)]

\* The items of a value converted by INT one by one: the first failure
\* raises.
RECURSIVE ConvertItems(_)
ConvertItems(xs) ==
    IF xs = <<>> THEN Return(<<>>)
    ELSE LET h == convert(Head(xs))
         IN  IF h.exc # NoExc THEN h
             ELSE LET t == ConvertItems(Tail(xs))
                  IN  IF t.exc # NoExc THEN t ELSE Return(<<h.rv>> \o t.rv)

\* self.type(ctx, x, self) (types.py): INT converts the value; the Tuple
\* type takes a value of as many items as its arity and converts each.
call_type(type, x) ==
    IF ~type.is_composite THEN convert(x)
    ELSE IF Len(Iterate(x)) # type.arity THEN Raise("BadParameter")
    ELSE LET r == ConvertItems(Iterate(x))
         IN  IF r.exc # NoExc THEN r ELSE Return(Tuple(r.rv))

\* tuple(self.type(ctx, x, self) for x in value): the first failure raises.
RECURSIVE ConvertEach(_, _)
ConvertEach(type, xs) ==
    IF xs = <<>> THEN Return(<<>>)
    ELSE LET h == call_type(type, Head(xs))
         IN  IF h.exc # NoExc THEN h
             ELSE LET t == ConvertEach(type, Tail(xs))
                  IN  IF t.exc # NoExc THEN t ELSE Return(<<h.rv>> \o t.rv)

\* Parameter.type_cast_value (core.py:1487-1500).  The values are None,
\* raw strings and tuples.
type_cast_value(param, value) ==
    IF value.tag = "none" THEN Return(value)
    ELSE LET v == IF param.multiple /\ value.tag # "tuple"
                  THEN Tuple(<<value>>) ELSE value
         IN  IF param.nargs # 1
             THEN LET r == ConvertEach(param.type, Iterate(v))
                  IN  IF r.exc # NoExc THEN r ELSE Return(Tuple(r.rv))
             ELSE call_type(param.type, v)

\* _check_iter (core.py:1294-1303): TRUE when it returns an iterator, FALSE
\* when it raises TypeError (a string, or a value that is not iterable).
check_iter(value) == value.tag = "tuple"

\* The classes a parameter is constructed from: Option, Argument, and a
\* subclass of Parameter that defines _parse_decls.
ParameterClasses == {"Option", "Argument", "UserParameter"}

DefinesParseDecls(cls) ==
    "_parse_decls" \in ParameterMethods \/ cls = "UserParameter"

\* The nargs of a parameter (core.py:1386-1390, 1393): the keyword when it
\* is given, else the arity of a composite type, else 1.
DefaultNargs(type, nargs) ==
    IF nargs.tag = "none"
    THEN IF type.is_composite THEN type.arity ELSE 1
    ELSE nargs.n

\* The checks of Parameter.__init__ under __debug__ (core.py:1401-1422),
\* nargs being what DefaultNargs gave: the error raised, or NoExc.
CheckDefault(type, multiple, nargs, default) ==
    LET static == IF callable(default) THEN PyNone ELSE default
    IN  IF type.is_composite /\ nargs # type.arity THEN Exc("ValueError", 0)
        ELSE IF static.tag = "none" THEN NoExc
        ELSE IF multiple /\ ~check_iter(static) THEN Exc("ValueError", 0)
        ELSE LET first == IF ~multiple THEN static
                          ELSE IF static.items = <<>> THEN PyNone
                          ELSE Head(static.items)
             IN  IF nargs # 1 /\ first.tag # "none"
                 THEN IF ~check_iter(first) THEN Exc("ValueError", 0)
                      ELSE IF nargs > 1 /\ Len(first.items) # nargs
                      THEN Exc("ValueError", 0)
                      ELSE NoExc
                 ELSE NoExc

\* cls(param_decls, type=type, multiple=multiple, nargs=nargs,
\* default=default) (core.py:1380-1422, 1697-1708).  type is a ParamType
\* instance, which types.convert_type hands back; nargs is None when the
\* keyword is left out; given says whether the keyword multiple was passed,
\* whatever its value.
Parameter_init(cls, given, type, multiple, nargs, default) ==
    IF cls = "Argument" /\ given THEN Raise("TypeError")
    ELSE IF ~DefinesParseDecls(cls) THEN Raise("AttributeError")
    ELSE LET n == DefaultNargs(type, nargs)
             e == CheckDefault(type, multiple, n, default)
         IN  IF e # NoExc THEN Result(e, <<>>)
             ELSE IF cls = "Argument" /\ default.tag # "none" /\ n = -1
             THEN Raise("TypeError")
             ELSE Return([cls |-> cls, type |-> type, multiple |-> multiple,
                          nargs |-> n, default |-> default])

MaxNargs == 2

\* The values of nargs: -1 (all remaining arguments) and 1..MaxNargs.
NargsValues == {-1} \cup 1..MaxNargs

\* The keyword nargs: left out, or one of the values.
NargsArguments == {PyNone} \cup {Num(n) : n \in NargsValues}

ParamDefaults ==
    {PyNone, Num(5), Str("ab"), Fn("make"), Tuple(<<>>), Tuple(<<Num(1)>>),
     Tuple(<<Num(1), Num(2)>>), Tuple(<<Num(1), Num(2), Num(3)>>),
     Tuple(<<Tuple(<<Num(1), Num(2)>>)>>),
     Tuple(<<Tuple(<<Num(1), Num(2)>>), Tuple(<<Num(1), Num(2), Num(3)>>)>>),
     Tuple(<<Tuple(<<Num(1), Num(2), Num(3)>>), Tuple(<<Num(1), Num(2)>>)>>),
     Tuple(<<Tuple(<<Num(1), Num(2)>>), Num(5)>>)}

RawValues ==
    {PyNone, Raw(<<"1">>), Raw(<<"1", "2">>), Raw(<<"x">>), Tuple(<<>>),
     Tuple(<<Raw(<<"1">>)>>), Tuple(<<Raw(<<"1">>), Raw(<<"2", "0">>)>>),
     Tuple(<<Raw(<<"2", "0">>), Raw(<<"1">>)>>),
     Tuple(<<Raw(<<"2">>), Raw(<<"x">>)>>)}

InitParam ==
    /\ part = "param"
    /\ pc = "start"
    /\ IdleTree
    /\ IdleOrder
    /\ IdleCmd
    /\ IdleCtx

ParamDone(next, o) ==
    /\ pc' = next
    /\ outcome' = o
    /\ UNCHANGED <<part, declaration_order, invocation_order, order_result,
                   command, argv, environ, standalone_mode, incomplete_arg, ctx,
                   stack, frames, log, defaults, contexts, heap, process>>

\* cls(["--n"], type=type, multiple=multiple, nargs=nargs, default=default),
\* and the same without the keywords multiple and nargs
NewParameter ==
    /\ part = "param"
    /\ \E cls \in ParameterClasses : \E given \in BOOLEAN : \E multiple \in BOOLEAN :
       \E type \in ParamTypes : \E nargs \in NargsArguments :
       \E default \in ParamDefaults :
          LET r == Parameter_init(cls, given, type, multiple, nargs, default)
          IN  /\ given \/ ~multiple
              /\ ParamDone("constructed",
                        [call |-> "Parameter", cls |-> cls, given |-> given,
                         type |-> type, multiple |-> multiple,
                         nargs_keyword |-> nargs,
                         nargs |-> DefaultNargs(type, nargs), arg |-> default,
                         kind |-> IF r.exc = NoExc THEN "return" ELSE "raise",
                         exc |-> r.exc, rv |-> r.rv])

\* param.type_cast_value(ctx, value) for a parameter that could be
\* constructed
TypeCastValue ==
    /\ part = "param"
    /\ pc = "constructed"
    /\ outcome.call = "Parameter"
    /\ outcome.kind = "return"
    /\ \E value \in RawValues :
          LET param == outcome.rv
              r == type_cast_value(param, value)
          IN  ParamDone("cast",
                        [call |-> "type_cast_value", cls |-> param.cls,
                         type |-> param.type,
                         multiple |-> param.multiple, nargs |-> param.nargs,
                         arg |-> value,
                         kind |-> IF r.exc = NoExc THEN "return" ELSE "raise",
                         exc |-> r.exc, rv |-> r.rv])

NextParam ==
    \/ NewParameter
    \/ TypeCastValue

SpecParam == InitParam /\ [][NextParam]_vars

(***************************************************************************)
(* "iso": CliRunner.isolation and CliRunner.invoke (testing.py:112-312)    *)
(* over the globals they replace.                                          *)
(***************************************************************************)
\* The names testing.py binds at module level (testing.py:1-73).
TestingNames ==
    {"contextlib", "io", "os", "shlex", "shutil", "sys", "tempfile", "t",
     "TracebackType", "formatting", "termui", "utils", "_find_binary_reader",
     "EchoingStdin", "_NamedTextIOWrapper", "Result", "CliRunner"}

\* The methods of CliRunner (testing.py:92-330).
CliRunnerMethods ==
    {"get_default_prog_name", "make_env", "isolation", "invoke",
     "isolated_filesystem"}

\* CliRunner.make_env (testing.py:105-110); a mapping is a record.
make_env(runner, overrides) == overrides @@ runner.env

\* The globals isolation replaces, before any test runs.
ProcessGlobals(stdin, args, env, width) ==
    [stdin |-> stdin, stdout |-> "sys.stdout", stderr |-> "sys.stderr",
     argv |-> args, environ |-> env, FORCED_WIDTH |-> width,
     visible_prompt_func |-> "termui.visible_prompt_func",
     hidden_prompt_func |-> "termui.hidden_prompt_func",
     getchar |-> "termui._getchar", echo |-> "utils.echo",
     get_binary_stream |-> "utils.get_binary_stream",
     get_text_stream |-> "utils.get_text_stream"]

\* isolation up to its yield, were PY2 a name of testing.py: the streams
\* are replaced before get_default_argv is looked up.
isolation_enter_past_PY2(g, runner, env) ==
    [g |-> [g EXCEPT !.stdin = IF runner.echo_stdin THEN "EchoingStdin"
                                ELSE "text_input",
                      !.stdout = "text_output",
                      !.stderr = "text_error"],
     exc |-> Exc("AttributeError", 0), yielded |-> FALSE]

\* CliRunner.isolation up to its yield (testing.py:138-232): the globals
\* afterwards, what was raised, and whether the yield was reached.
isolation_enter(g, runner, env) ==
    IF "PY2" \notin TestingNames
    THEN [g |-> g, exc |-> Exc("NameError", 0), yielded |-> FALSE]
    ELSE LET g1 == [g EXCEPT !.stdin = IF runner.echo_stdin THEN "EchoingStdin"
                                       ELSE "text_input",
                             !.stdout = "text_output",
                             !.stderr = "text_error"]
         IN  IF "get_default_argv" \notin CliRunnerMethods
             THEN [g |-> g1, exc |-> Exc("AttributeError", 0), yielded |-> FALSE]
             ELSE [g |-> [g1 EXCEPT !.argv = <<"default">>,
                                    !.environ = make_env(runner, env),
                                    !.FORCED_WIDTH = "80",
                                    !.visible_prompt_func = "visible_input",
                                    !.hidden_prompt_func = "hidden_input",
                                    !.getchar = "_getchar",
                                    !.echo = "echo",
                                    !.get_binary_stream = "get_binary_stream",
                                    !.get_text_stream = "get_text_stream"],
                   exc |-> NoExc, yielded |-> TRUE]

\* The finally clause of isolation (testing.py:233-246); old holds the
\* values saved on entry.  sys.argv is assigned itself.
isolation_exit(g, old) ==
    [old EXCEPT !.argv = g.argv]

\* `with runner.isolation(env=env): body`, the body returning or raising
\* what body_exc says.
with_isolation(g, runner, env, body_exc) ==
    LET e == isolation_enter(g, runner, env)
    IN  IF ~e.yielded THEN [g |-> e.g, exc |-> e.exc, body_ran |-> FALSE]
        ELSE [g |-> isolation_exit(e.g, g), exc |-> body_exc, body_ran |-> TRUE]

\* CliRunner.invoke (testing.py:248-312): cli.main returns or raises what
\* main_exc says; with catch_exceptions a SystemExit or Exception is kept
\* for the Result.
invoke(g, runner, env, catch_exceptions, main_exc) ==
    with_isolation(g, runner, env,
                   IF catch_exceptions /\ main_exc.kind # "KeyboardInterrupt"
                   THEN NoExc ELSE main_exc)

Runners == [env : {<<>>, [LANG |-> "C"]}, echo_stdin : BOOLEAN]

EnvOverrides == {<<>>, [LANG |-> "de", TERM |-> "dumb"]}

BodyOutcomes ==
    {NoExc, Exc("SystemExit", 2), Exc("RuntimeError", 0),
     Exc("KeyboardInterrupt", 0)}

InitIso ==
    /\ part = "iso"
    /\ pc = "start"
    /\ \E stdin \in {"sys.stdin", "pipe"} :
       \E args \in {<<"prog">>, <<"prog", "-v">>} :
       \E env \in {[HOME |-> "/root"], [HOME |-> "/root", LANG |-> "en"]} :
       \E width \in {"None", "100"} :
          process = ProcessGlobals(stdin, args, env, width)
    /\ contexts = <<>>
    /\ heap = <<>>
    /\ IdleOrder
    /\ IdleCmd
    /\ IdleCtx

IsoDone(call, runner, before, r) ==
    /\ process' = r.g
    /\ pc' = "ended"
    /\ outcome' = [call |-> call, runner |-> runner, before |-> before,
                    body_ran |-> r.body_ran,
                    kind |-> IF r.exc = NoExc THEN "return" ELSE "raise",
                    exc |-> r.exc]
    /\ UNCHANGED <<part, declaration_order, invocation_order, order_result,
                   command, argv, environ, standalone_mode, incomplete_arg, ctx,
                   stack, frames, log, defaults, contexts, heap>>

\* with runner.isolation(env=env): body
Isolation ==
    /\ part = "iso"
    /\ \E runner \in Runners : \E env \in EnvOverrides :
       \E body_exc \in BodyOutcomes :
          IsoDone("isolation", runner, process,
                  with_isolation(process, runner, env, body_exc))

\* runner.invoke(cli, env=env, catch_exceptions=catch_exceptions)
RunnerInvoke ==
    /\ part = "iso"
    /\ \E runner \in Runners : \E env \in EnvOverrides :
       \E catch_exceptions \in BOOLEAN : \E main_exc \in BodyOutcomes :
          IsoDone("invoke", runner, process,
                  invoke(process, runner, env, catch_exceptions, main_exc))

NextIso ==
    \/ Isolation
    \/ RunnerInvoke

SpecIso == InitIso /\ [][NextIso]_vars

(***************************************************************************)
(* "rcb": result callbacks registered with a MultiCommand by the           *)
(* result_callback decorator, and what calling the registered callback     *)
(* does.                                                                   *)
(***************************************************************************)
\* A callable is a sequence of names: <<"None">> is None, <<f>> the function
\* f, and Append(old, f) the closure new_callback (core.py:1122-1123) over
\* old and f.
NotCallable == "None"

\* The values passed around: the subcommand result, a parameter of the
\* group, the value a function returned.
Val(kind, of) == [kind |-> kind, of |-> of]
SubcommandResult == Val("result", "sub")
ReturnedBy(f) == Val("returned", f)
NoValue == Val("none", "")

CallRecord(f, args) == [fn |-> f, args |-> args]

\* cb(*args, **kwargs): the calls it makes to the functions, what it returns
\* and what it raises.  new_callback (core.py:1122-1123) hands its old
\* callback all its arguments, and f the old callback's return value followed
\* by all its arguments again.
RECURSIVE CallCallback(_, _)
CallCallback(cb, args) ==
    IF Len(cb) = 1
    THEN IF cb[1] = NotCallable
         THEN [exc |-> Exc("TypeError", 0), rv |-> NoValue, calls |-> <<>>]
         ELSE [exc |-> NoExc, rv |-> ReturnedBy(cb[1]),
               calls |-> <<CallRecord(cb[1], args)>>]
    ELSE LET inner == CallCallback(SubSeq(cb, 1, Len(cb) - 1), args)
             outer == CallCallback(<<cb[Len(cb)]>>, <<inner.rv>> \o args)
         IN  IF inner.exc # NoExc THEN inner
             ELSE [exc |-> outer.exc, rv |-> outer.rv,
                   calls |-> inner.calls \o outer.calls]

\* MultiCommand.result_callback(replace)(f) (core.py:1089-1126): the
\* command's _result_callback afterwards.
result_callback(self, repl, f) ==
    IF repl
    THEN [self EXCEPT !.result_callback = <<f>>]
    ELSE [self EXCEPT !.result_callback = Append(@, f)]

MaxDecorations == 3

CallbackNames == {"f", "g"}

\* The remaining arguments of a result callback: the parameters of the group.
RestArguments == {<<>>, <<Val("param", "input")>>}

InitRcb ==
    /\ part = "rcb"
    /\ IdleTree
    /\ pc = "start"
    /\ IdleOrder
    /\ IdleCmd
    /\ IdleCtx
    /\ log = <<>>
    /\ defaults = <<>>
    /\ outcome = NoOutcome

RcbDone(cmd, lg, o) ==
    /\ pc' = "built"
    /\ command' = cmd
    /\ log' = lg
    /\ outcome' = o
    /\ UNCHANGED <<part, declaration_order, invocation_order, order_result,
                   argv, environ, standalone_mode, incomplete_arg, ctx, stack,
                   frames, defaults, contexts, heap, process>>

\* MultiCommand("cli", result_callback=given) (core.py:1070-1087)
NewMultiCommand ==
    /\ part = "rcb"
    /\ pc = "start"
    /\ \E given \in {NotCallable, "p"} :
          LET r == MultiCommand_init(ProgName, FALSE, <<>>)
          IN  RcbDone(r.rv @@ [result_callback |-> <<given>>],
                      <<[replace |-> TRUE, f |-> given]>>,
                      [call |-> "MultiCommand", given |-> given])

\* @cli.result_callback(replace) applied to f
ResultCallback ==
    /\ part = "rcb"
    /\ pc = "built"
    /\ Len(log) <= MaxDecorations
    /\ \E repl \in BOOLEAN : \E f \in CallbackNames :
          RcbDone(result_callback(command, repl, f),
                  Append(log, [replace |-> repl, f |-> f]),
                  [call |-> "result_callback", given |-> f])

\* cli._result_callback(value, **ctx.params)
CallResultCallback ==
    /\ part = "rcb"
    /\ pc = "built"
    /\ \E rest \in RestArguments :
          LET r == CallCallback(command.result_callback, <<SubcommandResult>> \o rest)
          IN  RcbDone(command, log,
                      [call |-> "_result_callback", given |-> "", rest |-> rest,
                       exc |-> r.exc, rv |-> r.rv, calls |-> r.calls])

NextRcb ==
    \/ NewMultiCommand
    \/ ResultCallback
    \/ CallResultCallback

SpecRcb == InitRcb /\ [][NextRcb]_vars

(***************************************************************************)
(* Claims about the processing order.                                      *)
(***************************************************************************)
OrderReturned == part = "order" /\ pc = "returned" /\ order_result.exc = None

\* C2: in the order iter_params_for_processing returns, every eager
\* parameter comes before every non-eager one, and the eager parameters
\* keep their declaration order among themselves.
C2_EagerFirstInDeclarationOrder ==
    OrderReturned =>
        LET r == order_result.rv IN
        /\ \A i, j \in DOMAIN r : (r[i].is_eager /\ ~r[j].is_eager) => i < j
        /\ \A i, j \in DOMAIN r :
              ( /\ r[i].is_eager
                /\ r[j].is_eager
                /\ IndexOf(declaration_order, r[i]) < IndexOf(declaration_order, r[j]) )
              => i < j

\* C3: iter_params_for_processing returns an order for every input; in it
\* the matched non-eager parameters appear as the parser matched them, the
\* unmatched ones follow in declaration order, and every declared parameter
\* appears exactly once.
C3_MatchedOrderAndAllIncluded ==
    (part = "order" /\ pc = "returned") =>
        LET r == order_result.rv
            Matched(p) == p \in Range(invocation_order)
        IN
        /\ order_result.exc = None
        /\ Len(r) = Len(declaration_order)
        /\ \A k \in DOMAIN declaration_order :
              Cardinality({i \in DOMAIN r : r[i] = declaration_order[k]}) = 1
        /\ \A i, j \in DOMAIN r :
              ( /\ ~r[i].is_eager /\ ~r[j].is_eager
                /\ Matched(r[i]) /\ Matched(r[j])
                /\ IndexOf(invocation_order, r[i]) < IndexOf(invocation_order, r[j]) )
              => i < j
        /\ \A i, j \in DOMAIN r :
              ( /\ ~r[i].is_eager /\ ~r[j].is_eager
                /\ Matched(r[i]) /\ ~Matched(r[j]) )
              => i < j
        /\ \A i, j \in DOMAIN r :
              ( /\ ~r[i].is_eager /\ ~r[j].is_eager
                /\ ~Matched(r[i]) /\ ~Matched(r[j])
                /\ IndexOf(declaration_order, r[i]) < IndexOf(declaration_order, r[j]) )
              => i < j

(***************************************************************************)
(* Claims about the nesting depth and the cleanup registry.                *)
(***************************************************************************)
\* How often cleanup `id` has run.
RunCount(lg, id) == Cardinality({i \in DOMAIN lg : lg[i].ev = "cleanup" /\ lg[i].id = id})

RegisteredBefore(lg, id, i) ==
    \E k \in 1..(i - 1) : lg[k].ev = "register" /\ lg[k].id = id

\* C7: over nested with-blocks of one Context (`with ctx:` and
\* `with ctx.scope()`), no cleanup runs while the depth is above zero, and
\* when the outermost block is left every cleanup registered so far has run
\* exactly once.
C7_TeardownOnceAtDepthZero ==
    /\ [](part = "scope" =>
            \A i \in DOMAIN log : log[i].ev = "cleanup" => log[i].depth = 0)
    /\ [][ ( /\ part = "scope"
             /\ Len(frames) = 1
             /\ frames' = <<>>
             /\ frames[1].cleanup )
           => \A id \in Registered(log') : RunCount(log', id) = 1 ]_vars

\* C8: teardown is in reverse order of acquisition: of two cleanups that
\* were both registered (by call_on_close or with_resource) when the first of
\* them ran, the one registered later runs first.
C8_ReverseOrderOfAcquisition ==
    part = "scope" =>
        \A i, j \in DOMAIN log :
            ( /\ i < j
              /\ log[i].ev = "cleanup"
              /\ log[j].ev = "cleanup"
              /\ log[i].id # log[j].id
              /\ RegisteredBefore(log, log[j].id, i) )
            => log[i].id > log[j].id

\* The callable left registered, as stated, by the construction (the first
\* entry of the log, which sets the callback given) and the decorations:
\* <<>> when none is, else the functions of the chain, the oldest first.
RECURSIVE RegisteredChain(_)
RegisteredChain(decorations) ==
    IF decorations = <<>> THEN <<>>
    ELSE LET d == decorations[Len(decorations)]
             before == RegisteredChain(SubSeq(decorations, 1, Len(decorations) - 1))
         IN  IF d.f = NotCallable THEN <<>>
             ELSE IF d.replace THEN <<d.f>>
             ELSE Append(before, d.f)

\* The calls a chain makes as stated: the oldest function receives the
\* subcommand result and the remaining arguments, every later one the return
\* value of the one before it and the remaining arguments.
RECURSIVE ChainCalls(_, _)
ChainCalls(chain, rest) ==
    IF Len(chain) = 1
    THEN <<CallRecord(chain[1], <<SubcommandResult>> \o rest)>>
    ELSE Append(ChainCalls(SubSeq(chain, 1, Len(chain) - 1), rest),
                CallRecord(chain[Len(chain)],
                           <<ReturnedBy(chain[Len(chain) - 1])>> \o rest))

\* C29: after any decorations with result_callback, calling the registered
\* result callback raises nothing and calls the functions as stated: with no
\* callback registered before, or with replace=True, the decorated function
\* alone; else the old callback and then the new function with the old one's
\* return value followed by the same remaining arguments.
C29_ResultCallbacksChain ==
    (part = "rcb" /\ pc = "built" /\ outcome.call = "_result_callback"
        /\ Len(log) > 1) =>
        /\ outcome.exc = NoExc
        /\ outcome.calls = ChainCalls(RegisteredChain(log),
                                      outcome.rest)
        /\ outcome.rv = ReturnedBy(log[Len(log)].f)

\* globals.get_current_context(silent=True): the top of the stack, or none.
get_current_context(st) == IF st = <<>> THEN "" ELSE st[Len(st)]

\* The Context whose with-block is the innermost open one, or none.
InnermostBlock(fs) ==
    IF fs = <<>> THEN ""
    ELSE IF fs[Len(fs)].kind = "other" THEN OtherName ELSE ctx.info_name

\* C28: inside `with ctx:` and inside `with ctx.scope(cleanup):`, at every
\* nesting depth and whatever other Context was pushed before, the current
\* context is ctx; once a block is left, the current context is again the
\* one that was current before the block was entered.
C28_CurrentContextIsInnermost ==
    part = "scope" => get_current_context(stack) = InnermostBlock(frames)

\* The callbacks registered through call_on_close.
CloseCallbacks(lg) ==
    {lg[i].id : i \in {k \in DOMAIN lg : lg[k].ev = "register"
                                          /\ lg[k].via = "call_on_close"}}

\* C30: over any sequence of call_on_close registrations, close() calls and
\* with-block exits on one Context, no registered close callback is run more
\* than once, also when another close callback raised during a close().
C30_NoCleanupRunTwice ==
    part = "scope" =>
        \A id \in CloseCallbacks(log) : RunCount(log, id) <= 1

(***************************************************************************)
(* Claims about value resolution, context building and invocation.         *)
(***************************************************************************)
\* The value the command line gives an option (spec 4.2): the token after
\* the option string, PyNone when the option is not on the line.
CliValue(args, param) ==
    IF \E i \in 1..(Len(args) - 1) : args[i] = param.opts
    THEN Str(args[(CHOOSE i \in 1..(Len(args) - 1) : args[i] = param.opts) + 1])
    ELSE PyNone

\* The value of the parameter's environment variable (spec 4.3, step 2).
EnvValue(env, param) ==
    IF param.envvar # None /\ param.envvar \in DOMAIN env THEN env[param.envvar]
    ELSE PyNone

\* The value resolution chain of spec 4.3, steps 1 to 4.
ResolvedValue(args, env, c, param) ==
    IF CliValue(args, param) # PyNone THEN CliValue(args, param)
    ELSE IF EnvValue(env, param) # PyNone THEN EnvValue(env, param)
    ELSE get_default(param, c, TRUE)

CallbackEvents(lg) == SelectSeq(lg, LAMBDA e : e.ev = "callback")

Exposed(cmd) == {cmd.params[i].name : i \in {k \in DOMAIN cmd.params : cmd.params[k].expose_value}}

\* The parameters a command's callback is to receive from `args`.
ResolvedParams(cmd, args, env, c) ==
    [n \in Exposed(cmd) |->
        ResolvedValue(args, env, c,
                      cmd.params[CHOOSE k \in DOMAIN cmd.params : cmd.params[k].name = n])]

CtxBuilt == part = "cmd" /\ pc \in {"built", "invoked"}

\* C1: the value a context holds for a parameter is the command-line value
\* when one is given, else the environment variable's, else the default
\* map's entry, else the static default.
C1_ResolutionPrecedence ==
    (CtxBuilt /\ command.kind = "Command") =>
        \A i \in DOMAIN command.params :
            LET param == command.params[i] IN
            param.expose_value =>
                /\ param.name \in DOMAIN ctx.params
                /\ ctx.params[param.name] = ResolvedValue(argv, environ, ctx, param)

\* C4: once make_context has returned, ctx.params has an entry for every
\* parameter with expose_value and a source is recorded for every parameter.
C4_ContextBuiltHoldsParams ==
    CtxBuilt =>
        \A i \in DOMAIN command.params :
            LET param == command.params[i] IN
            /\ param.expose_value => param.name \in DOMAIN ctx.params
            /\ param.name \in DOMAIN ctx.parameter_source

SubcommandNames(cmd) == {cmd.commands[i].name : i \in DOMAIN cmd.commands}
Subcommand(cmd, name) == cmd.commands[CHOOSE i \in DOMAIN cmd.commands : cmd.commands[i].name = name]

\* C5: invoking a non-chain group whose command line names a subcommand
\* calls the group's callback first and then the subcommand's callback, once,
\* with the subcommand's own parameters, in a context whose parent is the
\* group's context.
C5_GroupThenSubcommand ==
    ( /\ part = "cmd" /\ pc = "invoked"
      /\ command.kind = "Group" /\ ~command.chain
      /\ argv # <<>> /\ argv[1] \in SubcommandNames(command) )
    => LET calls == CallbackEvents(log)
           sub == Subcommand(command, argv[1])
       IN  /\ Len(calls) = 2
           /\ calls[1].command = command.name
           /\ calls[1].kwargs = ResolvedParams(command, <<>>, environ, ctx)
           /\ calls[2].command = sub.name
           /\ calls[2].parent.exists
           /\ calls[2].parent.info_name = ctx.info_name
           /\ DOMAIN calls[2].kwargs = Exposed(sub)

\* C6: a chain group invoked as `parent sub1 --x 1 sub2 --y 2` calls its
\* own callback, then sub1's with x=1 only, then sub2's with y=2 only.
C6_ChainInOrderOwnOptions ==
    ( /\ part = "cmd" /\ pc = "invoked"
      /\ command.kind = "Group" /\ command.chain
      /\ argv = <<"sub1", "--x", "1", "sub2", "--y", "2">> )
    => LET calls == CallbackEvents(log)
       IN  /\ Len(calls) = 3
           /\ calls[1].command = command.name
           /\ calls[2].command = "sub1"
           /\ calls[2].kwargs = [n \in {"x"} |-> Str("1")]
           /\ calls[3].command = "sub2"
           /\ calls[3].kwargs = [n \in {"y"} |-> Str("2")]

(***************************************************************************)
(* Claims about main.                                                      *)
(***************************************************************************)
MainDone == part = "main" /\ pc = "done"

NoCleanupRaises(b) == \A i \in DOMAIN b.registers : ~b.registers[i].raises

\* C9: once main() has built the Context, every cleanup registered on it
\* has run by the time main() returns, raises or exits the process, however
\* the command ended.
C9_TeardownWhateverTheOutcome ==
    (MainDone /\ outcome.built) =>
        \A id \in Registered(log) : RunCount(log, id) >= 1

\* C10: in standalone mode, with the Context built and cleanups that do not
\* raise, a callback that requests exit with code c makes main() exit the
\* process with status c, a callback that returns makes it exit with status
\* 0, and no exit request leaves main() as an exception.
C10_StandaloneExitStatus ==
    (MainDone /\ standalone_mode /\ outcome.built
        /\ NoCleanupRaises(command.parse_args) /\ NoCleanupRaises(command.callback)) =>
        /\ ~(outcome.kind = "raise" /\ outcome.exc.kind = "Exit")
        /\ command.callback.exc.kind = "Exit" =>
               outcome.kind = "exit" /\ outcome.code = command.callback.exc.code
        /\ command.callback.exc = NoExc =>
               outcome.kind = "exit" /\ outcome.code = 0

\* The exception the program's code raises under main: parse_args's, or
\* else the callback's (NoExc when both return).
ErrorRaised(cmd) ==
    IF cmd.parse_args.exc # NoExc THEN cmd.parse_args.exc ELSE cmd.callback.exc

CleanupsReturn ==
    NoCleanupRaises(command.parse_args) /\ NoCleanupRaises(command.callback)

\* C11: in standalone mode a ClickException raised while the Context is
\* built or the command is invoked is shown and main() exits with the
\* error's exit code; EOFError, KeyboardInterrupt and Abort print
\* "Aborted!" and exit with status 1.
C11_StandaloneErrorsBecomeExits ==
    (MainDone /\ standalone_mode /\ CleanupsReturn) =>
        LET e == ErrorRaised(command) IN
        /\ IsClickException(e) =>
               /\ outcome.kind = "exit"
               /\ outcome.code = e.code
               /\ "show" \in Range(outcome.stderr)
        /\ e.kind \in {"EOFError", "KeyboardInterrupt", "Abort"} =>
               /\ outcome.kind = "exit"
               /\ outcome.code = 1
               /\ "Aborted!" \in Range(outcome.stderr)

\* C12: with standalone_mode=False main() never exits the process;
\* ClickExceptions and Abort reach the caller as they were raised, and when
\* nothing is raised main() returns what the command's invocation returned.
C12_NonStandalonePropagates ==
    (MainDone /\ ~standalone_mode /\ CleanupsReturn) =>
        LET e == ErrorRaised(command) IN
        /\ outcome.kind # "exit"
        /\ (IsClickException(e) \/ e.kind = "Abort") =>
               outcome.kind = "raise" /\ outcome.exc = e
        /\ e = NoExc =>
               outcome.kind = "return" /\ outcome.rv = ReturnValue(command)

CompletionRequested == EnvGet(environ, CompleteVar("cli")) # <<>>

\* C13: when the completion variable is set, main() exits the process
\* without having built a Context that enforces required-ness for the real
\* command line and without having invoked the command callback.
C13_CompletionBeforeProcessing ==
    (MainDone /\ CompletionRequested) =>
        /\ outcome.kind = "exit"
        /\ ~(ctx.exists /\ ~ctx.resilient_parsing)
        /\ CallbackEvents(log) = <<>>

(***************************************************************************)
(* Claims about completion.                                                *)
(***************************************************************************)
CompDid(call) == part = "comp" /\ pc = "done" /\ outcome.call = call

\* Every Context from c up to the root is in resilient-parsing mode.
RECURSIVE AllResilient(_)
AllResilient(c) == c.exists => (c.resilient_parsing /\ AllResilient(c.parent))

\* C14: every Context built while completions are resolved is in
\* resilient-parsing mode; no callback is invoked and no missing-parameter
\* error is raised.
C14_CompletionContextsResilient ==
    CompDid("get_completions") =>
        /\ AllResilient(ctx)
        /\ CallbackEvents(log) = <<>>
        /\ outcome.exc.kind # "MissingParameter"

\* The option strings a command declares.
OptionStrings(cmd) ==
    UNION {Range(cmd.params[i].opts) :
              i \in {k \in DOMAIN cmd.params : cmd.params[k].cls = "Option"}}

FlagPrefix == <<"-", "-", "f", "l", "a">>

\* C15: completing `prog sub --fla`, where sub declares --flag, returns
\* --flag among the candidates: both the whole resolution from the root and
\* sub's own completion of "--fla" offer it.
C15_OptionNameOffered ==
    /\ ( /\ CompDid("get_completions")
         /\ IsMultiCommand(command)
         /\ argv = <<SubName>>
         /\ incomplete_arg = FlagPrefix
         /\ FlagOpt \in OptionStrings(Child(command, SubName)) )
       => (outcome.kind = "return" /\ FlagOpt \in Range(outcome.rv))
    /\ ( /\ CompDid("shell_complete")
         /\ IsMultiCommand(command)
         /\ outcome.target = SubName
         /\ incomplete_arg = FlagPrefix
         /\ FlagOpt \in OptionStrings(Child(command, SubName)) )
       => (outcome.kind = "return" /\ FlagOpt \in Range(outcome.rv))

\* An option that takes a value, one of whose option strings is among the
\* last nargs arguments with nothing but values after it.
TakesValue(param) == param.cls = "Option" /\ ~param.is_flag /\ ~param.count

LooksLikeOption(arg) == arg # <<>> /\ arg[1] = "-"

OptionPending(param, args) ==
    /\ TakesValue(param)
    /\ \E k \in 1..param.nargs :
          /\ k <= Len(args)
          /\ args[Len(args) - k + 1] \in Range(param.opts)
          /\ \A j \in (Len(args) - k + 2)..Len(args) : ~LooksLikeOption(args[j])

\* The object the trailing position belongs to: the pending option, else
\* the first argument that still accepts values, else the command.
ExpectedChoice(c, cmd, args) ==
    LET pending == SelectSeq(cmd.params, LAMBDA p : OptionPending(p, args))
        open == SelectSeq(cmd.params, LAMBDA p : is_incomplete_argument(c, p))
    IN  IF pending # <<>> THEN ChosenParam(pending[1])
        ELSE IF open # <<>> THEN ChosenParam(open[1])
        ELSE ChosenCommand(cmd)

\* C16: _resolve_incomplete returns the pending value-taking option, else
\* the first argument that can still accept values, else the command.
C16_TrailingPositionOwner ==
    CompDid("resolve_incomplete") =>
        /\ outcome.kind = "return"
        /\ outcome.rv = ExpectedChoice(ctx, command, argv)

\* The names of the children of a multi command that are not hidden and
\* start with a prefix.
VisibleChildren(cmd, prefix) ==
    {cmd.commands[i].name :
        i \in {k \in DOMAIN cmd.commands :
                  ~cmd.commands[k].hidden /\ startswith(cmd.commands[k].name, prefix)}}

\* Command-name completion of the multi command has been asked for: its
\* shell_complete, or _complete_visible_commands for its Context.
CommandNamesAsked ==
    /\ CompDid("shell_complete") \/ CompDid("complete_visible_commands")
    /\ IsMultiCommand(command)
    /\ outcome.target = command.name

\* C17: every command name that completion of a multi command offers is
\* the name of a registered child that is not hidden and starts with the
\* incomplete value; a hidden child is never offered.
C17_OnlyVisibleCommandsOffered ==
    CommandNamesAsked
        => Range(outcome.rv) \subseteq VisibleChildren(command, incomplete_arg)

\* Names are offered for a multi command that has a hidden child whose
\* name starts with the incomplete value.
C17_Witness ==
    /\ CommandNamesAsked
    /\ outcome.kind = "return"
    /\ outcome.rv # <<>>
    /\ \E i \in DOMAIN command.commands :
          /\ command.commands[i].hidden
          /\ startswith(command.commands[i].name, incomplete_arg)

\* C18: for a command inside a chain-mode multi command the candidates
\* include every visible sibling whose name starts with the incomplete
\* value.
C18_ChainSiblingsOffered ==
    ( /\ CompDid("base_shell_complete")
      /\ IsMultiCommand(command)
      /\ command.chain )
    => /\ outcome.kind = "return"
       /\ (VisibleChildren(command, incomplete_arg) \ {outcome.target})
              \subseteq Range(outcome.rv)

\* C19: where a command has a help option (add_help_option set and a help
\* option name left over), get_help_option returns an eager flag that is not
\* exposed and whose callback is show_help, which prints and exits only for
\* a true value outside resilient-parsing mode.
C19_HelpOptionEagerFlag ==
    ( /\ CompDid("get_help_option")
      /\ outcome.target.add_help_option
      /\ get_help_option_names(ctx, outcome.target) # <<>> )
    => /\ outcome.kind = "return"
       /\ outcome.rv.is_flag
       /\ outcome.rv.is_eager
       /\ ~outcome.rv.expose_value
       /\ outcome.rv.callback = "show_help"

\* A command registered under a name that declares an optional Argument.
DeclaresOptionalArgument(cmd) ==
    /\ cmd.name # <<>>
    /\ \E i \in DOMAIN cmd.params : IsOptionalArgument(cmd.params[i])

\* C20: a chain-mode group never takes a command that declares an optional
\* Argument: the registration, at construction or through add_command, ends
\* in an error and the command is not among the group's commands.
C20_ChainRejectsOptionalArgument ==
    ( /\ part = "reg"
      /\ pc # "start"
      /\ outcome.chain
      /\ \E i \in DOMAIN outcome.given :
            DeclaresOptionalArgument(outcome.given[i]) )
    => /\ outcome.kind = "raise"
       /\ command # NoCommand =>
              \A i \in DOMAIN command.commands :
                  ~DeclaresOptionalArgument(command.commands[i])

\* The value of a name->Command mapping at a name; NoCommand for None.
Registered_under(d, name) ==
    IF \E i \in DOMAIN d : d[i].name = name
    THEN d[CHOOSE i \in DOMAIN d : d[i].name = name]
    ELSE NoCommand

RegDid(kind, call) ==
    part = "reg" /\ pc = "built" /\ command.kind = kind /\ outcome.call = call

\* C21: on a Group, get_command returns the Command registered under the
\* name, or None for a name never registered, and list_commands enumerates
\* exactly the registered names.
C21_GroupLookupBackedByMapping ==
    /\ RegDid("Group", "get_command") =>
          /\ outcome.kind = "return"
          /\ outcome.rv = Registered_under(command.commands, outcome.arg)
    /\ RegDid("Group", "list_commands") =>
          /\ outcome.kind = "return"
          /\ Range(outcome.rv) =
                 {command.commands[i].name : i \in DOMAIN command.commands}

\* The Command of the first source, in source order, that has one under the
\* name; NoCommand when no source has one.
RECURSIVE FirstMatch(_, _)
FirstMatch(sources, name) ==
    IF sources = <<>> THEN NoCommand
    ELSE LET c == Registered_under(Head(sources).commands, name)
         IN  IF c # NoCommand THEN c ELSE FirstMatch(Tail(sources), name)

\* C22: on a CommandCollection, get_command returns the Command of the
\* first source in source order (sources added by add_source included) that
\* has the name, and None when no source has it.
C22_CollectionFirstMatchWins ==
    RegDid("CommandCollection", "get_command") =>
        /\ outcome.kind = "return"
        /\ outcome.rv = FirstMatch(command.sources, outcome.arg)

(***************************************************************************)
(* Claims about Contexts constructed under one another.                    *)
(***************************************************************************)
\* The step constructs a Context.
Constructed == part = "tree" /\ Len(contexts') = Len(contexts) + 1

\* The settings that are the parent's unless given locally.
PlainSettings == InheritedSettings \cup {"help_option_names"}

\* For the Context c just constructed under parent (its state when c was
\* constructed): a setting given locally has the value given, one not given
\* has the parent's.
PlainSettingsInherited(c, parent) ==
    \A key \in PlainSettings :
        /\ key \in DOMAIN c.kw => c.obj[key] = c.kw[key]
        /\ (key \notin DOMAIN c.kw /\ parent.exists) => c.obj[key] = parent[key]

\* c was given no prefix, has an info name, and its parent has a prefix.
DerivesPrefix(c, parent) ==
    /\ "auto_envvar_prefix" \notin DOMAIN c.kw
    /\ parent.exists
    /\ parent.auto_envvar_prefix.tag # "none"
    /\ c.obj.info_name # <<>>

\* The settings a Context holds itself.
OwnSettings(c) ==
    [key \in PlainSettings \cup {"auto_envvar_prefix"} |-> c.obj[key]]

\* A step changes the settings of at most one of the Contexts that exist,
\* and constructing a Context changes those of none of them.
FixedAtConstruction ==
    /\ \A i \in DOMAIN contexts : \A j \in DOMAIN contexts \ {i} :
          OwnSettings(contexts'[i]) # OwnSettings(contexts[i])
              => OwnSettings(contexts'[j]) = OwnSettings(contexts[j])
    /\ Constructed => \A i \in DOMAIN contexts : contexts'[i] = contexts[i]

\* What a step that constructs a Context establishes, for a rule on the
\* derived prefix.
InheritanceStep(PrefixRule(_, _)) ==
    /\ FixedAtConstruction
    /\ Constructed =>
          LET c == contexts'[Len(contexts')]
              parent == IF c.parent = 0 THEN NoCtx ELSE contexts[c.parent].obj
          IN  /\ PlainSettingsInherited(c, parent)
              /\ DerivesPrefix(c, parent) => PrefixRule(c, parent)

\* The prefix is the parent's, an underscore and the upper-cased info name.
PrefixAsStated(c, parent) ==
    c.obj.auto_envvar_prefix =
        Str(parent.auto_envvar_prefix.v \o <<"_">> \o upper(c.obj.info_name))

\* The same, with every "-" of the info name turned into "_".
PrefixWithDashesReplaced(c, parent) ==
    c.obj.auto_envvar_prefix =
        Str(parent.auto_envvar_prefix.v \o <<"_">>
                \o replace(upper(c.obj.info_name), "-", "_"))

\* C23 as stated: a Context constructed under a parent takes the parent's
\* color, show_default, help_option_names, token_normalize_func,
\* terminal_width and max_content_width unless given a value locally, which
\* wins; a prefix not given locally is the parent's prefix, an underscore
\* and the upper-cased info name; later steps on other Contexts change
\* nothing of it.
C23_SettingsInheritedAsStated == [][InheritanceStep(PrefixAsStated)]_vars

\* C23, amended: as above, the derived prefix being the parent's prefix, an
\* underscore and the upper-cased info name with every "-" replaced by "_".
C23_SettingsInherited == [][InheritanceStep(PrefixWithDashesReplaced)]_vars

\* A child constructed with no keyword argument under a parent that has a
\* color, a prefix and its own help option names, the child's info name
\* holding a "-", and the parent's color assigned again afterwards.
C23_Witness ==
    /\ part = "tree"
    /\ \E i \in DOMAIN contexts :
          /\ contexts[i].parent # 0
          /\ contexts[i].kw = NoKw
          /\ contexts[i].obj.info_name = DashedName
          /\ contexts[i].obj.auto_envvar_prefix.tag # "none"
          /\ contexts[i].obj.color = Bool(FALSE)
          /\ contexts[contexts[i].parent].obj.color = Bool(TRUE)

\* j is i or a descendant of i.
RECURSIVE Descends(_, _)
Descends(j, i) ==
    \/ j = i
    \/ contexts[j].parent # 0 /\ Descends(contexts[j].parent, i)

\* The meta dict as seen through Context i.
Meta(i) == heap[contexts[i].obj.meta]

\* C24: a Context and each of its descendants see the same meta store, so a
\* key stored through one is visible through the others, and constructing
\* a Context leaves every store that exists as it is.
C24_MetaSharedAlongChain ==
    /\ [](\A i \in DOMAIN contexts : \A j \in DOMAIN contexts :
            Descends(j, i) => Meta(i) = Meta(j))
    /\ [][Constructed => \A r \in DOMAIN heap : heap'[r] = heap[r]]_vars

\* A key present both through a Context and through its child, a second
\* root not having it.
C24_Witness ==
    /\ part = "tree"
    /\ \E i \in DOMAIN contexts : \E j \in DOMAIN contexts :
       \E k \in DOMAIN contexts :
          /\ contexts[j].parent = i
          /\ "lang" \in DOMAIN Meta(i)
          /\ "lang" \in DOMAIN Meta(j)
          /\ contexts[k].parent = 0
          /\ "lang" \notin DOMAIN Meta(k)

(***************************************************************************)
(* Claims about parameters.                                                *)
(***************************************************************************)
\* A tuple of raw strings, one at least, each of which the type converts.
Occurrences(value) ==
    /\ value.tag = "tuple"
    /\ value.items # <<>>
    /\ \A i \in DOMAIN value.items : convert(value.items[i]).exc = NoExc

\* C25: for a parameter with multiple=True and nargs=1, type_cast_value of
\* N occurrences returns a sequence of N elements, the i-th being the i-th
\* occurrence converted by the type.
C25_EachOccurrenceConverted ==
    ( /\ part = "param"
      /\ pc = "cast"
      /\ outcome.multiple
      /\ outcome.nargs = 1
      /\ Occurrences(outcome.arg) )
    => /\ outcome.kind = "return"
       /\ outcome.rv.tag = "tuple"
       /\ Len(outcome.rv.items) = Len(outcome.arg.items)
       /\ \A i \in DOMAIN outcome.arg.items :
             outcome.rv.items[i] = convert(outcome.arg.items[i]).rv

\* A sequence of exactly n elements.
SequenceOf(value, n) == value.tag = "tuple" /\ Len(value.items) = n

\* A static default of the wrong shape for multiple and nargs.
IllShaped(multiple, nargs, default) ==
    /\ default.tag \notin {"none", "callable"}
    /\ \/ multiple /\ default.tag # "tuple"
       \/ ~multiple /\ nargs > 1 /\ ~SequenceOf(default, nargs)
       \/ /\ multiple
          /\ nargs > 1
          /\ default.tag = "tuple"
          /\ \E i \in DOMAIN default.items : ~SequenceOf(default.items[i], nargs)

\* C26: constructing a parameter with a static default of the wrong shape
\* raises an error.
C26_IllShapedDefaultRejected ==
    ( /\ part = "param"
      /\ pc = "constructed"
      /\ IllShaped(outcome.multiple, outcome.nargs, outcome.arg) )
    => outcome.kind = "raise"

(***************************************************************************)
(* Claims about the test runner.                                           *)
(***************************************************************************)
\* C27: once isolation, or invoke, has ended, normally or by exception,
\* the standard streams, the environment, the argument vector and every
\* other global the isolation replaces have the values they had before
\* entry.
C27_IsolationRestoresGlobals ==
    (part = "iso" /\ pc = "ended") => process = outcome.before

\* invoke has ended by an exception, for a runner with an environment of
\* its own and a process whose globals are not the defaults.
C27_Witness ==
    /\ part = "iso"
    /\ pc = "ended"
    /\ outcome.call = "invoke"
    /\ outcome.kind = "raise"
    /\ outcome.runner.env # <<>>
    /\ outcome.before.stdin = "pipe"
    /\ outcome.before.FORCED_WIDTH = "100"

====
